---- MODULE Spec2Model ----
(***************************************************************************)
(* A model of the gnosis-ocr job pipeline: the job manager's metadata      *)
(* append (app/jobs.py), the persistent chunked upload (app/main.py,       *)
(* app/chunked_upload.py), the EXTRACT_PAGES / OCR job chains and the      *)
(* derived session status (app/jobs.py, app/job_routes.py,                 *)
(* app/storage_service.py), and the stateless UploadManager               *)
(* (app/uploader.py), the OCR service's model loading                      *)
(* (app/ocr_service.py), and the batch endpoint over processing.json       *)
(* (app/main.py).                                                          *)
(*                                                                         *)
(* These specifications share the module, each over its own variables:     *)
(*   SpecMeta    overlapping JobManager.create_job calls on one session    *)
(*   SpecUpload  overlapping upload_job_chunk calls on one upload_id       *)
(*   SpecJobs    one session's job chains and its status document          *)
(*   SpecAssemble  UploadManager: chunk uploads and assemble_file calls     *)
(*   SpecStorage   StorageService file calls of two users, both back-ends   *)
(*   SpecSessions  StorageService session calls of two users                *)
(*   SpecOcr       OCRService: the loader thread, process_image, submit_job *)
(*   SpecChains    the job chains alone, started from any page             *)
(*   SpecLocalPool the job chains in local mode with the pool's wrapper    *)
(*   SpecRedeliver the job chains with Cloud Tasks delivering twice        *)
(*   SpecRebuild   the job chains with the wall clock of the status scan   *)
(*   SpecBatch     overlapping process_ocr_batch calls on processing.json  *)
(***************************************************************************)
EXTENDS Naturals, Integers, Sequences, FiniteSets, TLC

\* "No call": the holder of a free lock, the result of a call not yet returned.
NoCall == 0

Range(s) == {s[i] : i \in 1..Len(s)}

IsPrefix(s, t) == Len(s) <= Len(t) /\ \A i \in 1..Len(s) : s[i] = t[i]

Min(a, b) == IF a <= b THEN a ELSE b

\* ceil(a / b) for b > 0
CeilDiv(a, b) == (a + b - 1) \div b

(***************************************************************************)
(* State                                                                   *)
(***************************************************************************)

\* Part 1: the create_job calls on one session and its metadata.json
VARIABLES
    meta_jobs,      \* metadata.json "jobs" array of the session (job ids, in file order)
    meta_lock,      \* JobManager instance -> the call holding its _metadata_lock, or NoCall
    call_kind,      \* call -> "api" (job_routes.create_job) or "job" (continuation from a worker thread)
    call_pc,        \* call -> position inside create_job
    call_metadata,  \* call -> the jobs array the call has read (its local `metadata`)
    call_result,    \* call -> the job_id create_job returned, or NoCall
    call_dispatch,  \* call -> what became of its payload: "none" (not yet dispatched), "queued", "dropped"
    call_status     \* call -> status code of the HTTP response to its request (0: none sent)

\* The state of the create_job calls themselves.
callVars == <<meta_lock, call_kind, call_pc, call_metadata, call_result, call_dispatch,
             call_status>>

metaVars == <<meta_jobs, callVars>>

\* Part 2: one upload_id
VARIABLES
    up_declared,   \* total_chunks the client declared at Start (0 before Start)
    up_tracker,    \* user hash -> upload_sessions/{upload_id}.json under that user's prefix (present = FALSE: no such object)
    up_blobs,      \* chunk numbers whose upload_chunks/{upload_id}/chunk_NNNN.bin exists (anonymous prefix)
    up_docs,       \* number of times the assembled source document was written to a new session
    up_jobs,       \* number of processing jobs started for the upload
    up_pc,         \* request -> position inside upload_job_chunk
    up_num,        \* request -> its X-Chunk-Number
    up_copy,       \* request -> its session_data (the tracker as loaded, then as updated)
    up_result      \* request -> what the call returned

uploadVars == <<up_declared, up_tracker, up_blobs, up_docs, up_jobs,
                up_pc, up_num, up_copy, up_result>>

\* Part 3: one session's documents and jobs
VARIABLES
    job_cloud,      \* RUNNING_IN_CLOUD: object-store back-end and Cloud Tasks dispatch
    doc_pages,      \* pdf_info['Pages'] of the session's source document
    store_pages,    \* page numbers p whose pages/page_{p:03d}.png is stored
    store_bytes,    \* page number -> the bytes of pages/page_{p:03d}.png
    store_results,  \* page numbers p whose results/page_{p:03d}.txt is stored
    status_doc,     \* session_status.json as stored
    pinned_total,   \* total_pages of the last status update that passed one (0: none yet)
    job_log         \* the jobs created so far, in creation order; a job's id is its index

jobVars == <<job_cloud, doc_pages, store_pages, store_bytes, store_results,
             status_doc, pinned_total, job_log>>

\* Part 3, continued: the wall clock and the rebuild-status calls
VARIABLES
    utc_now,   \* datetime.utcnow(), in ticks
    rb_row     \* number of rebuild-status calls made in a row on the idle session
               \* (up to MaxRow), with no job step and no file change in between

rebuildVars == <<utc_now, rb_row>>

\* Part 4: one UploadManager session (the session's chunks/ directory)
VARIABLES
    as_chunker,   \* chunks/chunker.json (present = FALSE: no such file)
    as_files,     \* file name -> content, for the chunk files under chunks/
    as_arrival,   \* the chunk_number of every add_chunk call, in arrival order; a chunk's data is the index of its call
    as_sizes,     \* the number of bytes of every add_chunk call's chunk_data, in arrival order
    as_output,    \* the assembled file: the data written, in file order (<<>>: not written)
    as_calls,     \* number of assemble_file calls started
    as_pc,        \* position inside the assemble_file call in progress ("idle": none)
    as_data,      \* assemble_file's chunker_data
    as_read,      \* what read_chunks has yielded so far
    as_result     \* what the last assemble_file call returned

assembleVars == <<as_chunker, as_files, as_arrival, as_sizes, as_output, as_calls,
                  as_pc, as_data, as_read, as_result>>

\* Part 5: the StorageService calls of two users, applied to an object-store
\* gateway and to a filesystem gateway side by side
VARIABLES
    gcs_objects,  \* bucket: object name -> content
    fs_files,     \* /app/storage: resolved file path -> content
    st_write,     \* the save_file call in progress (active = FALSE: none)
    st_saves,     \* number of save_file calls started; a call's content carries its number
    st_created,   \* session id -> the user whose create_session returned it ("none": not created)
    st_last_gcs,  \* object name -> content of the last successful save with no delete since
    st_last_fs,   \* file path -> content of the last successful save with no delete since
    st_op         \* the last call that returned and what it returned on each back-end

storageVars == <<gcs_objects, fs_files, st_write, st_saves, st_created,
                 st_last_gcs, st_last_fs, st_op>>

\* Part 6: one OCRService instance and its threads
VARIABLES
    model_loaded,  \* self._model_loaded
    loading,       \* self._loading
    load_failed,   \* load_model has raised in some _background_load thread
    job_queue,     \* self.job_queue
    ld_pc,         \* loader thread -> position inside _background_load
    ld_todo,       \* loader thread -> what is left of its list(self.job_queue)
    ocr_status,    \* job -> self.jobs[job_id]["status"] ("none": not submitted)
    ocr_started,   \* job -> number of process_job_async calls for it
    sj_pc,         \* job -> position inside its submit_job call
    pi_pc,         \* request -> position inside its process_image call
    pi_result,     \* request -> "none", "ran", or the error raised
    sj_early,      \* job -> its submit_job began before the eager loader ran
    pi_early       \* request -> its process_image began before the eager loader ran

ocrVars == <<model_loaded, loading, load_failed, job_queue, ld_pc, ld_todo,
             ocr_status, ocr_started, sj_pc, pi_pc, pi_result,
             sj_early, pi_early>>

\* Part 7: one session's processing.json and the process_ocr_batch invocations
VARIABLES
    pj_pages,      \* processing.json in storage: page -> its "status"
    pj_results,    \* pages whose page_NNN_result.txt exists
    pj_status,     \* status.json "status"
    pj_tasks,      \* number of Cloud Tasks created for the session
    pb_pc,         \* invocation -> position inside process_ocr_batch
    pb_data,       \* invocation -> its local processing_data["pages"]
    pb_pending,    \* invocation -> its pending_pages
    pb_todo,       \* invocation -> the pending_pages its loop has not reached
    pb_response,   \* invocation -> "status" of its response ("none": not returned)
    page_ocr_by    \* page -> the invocations whose loop ran process_image on it

batchVars == <<pj_pages, pj_results, pj_status, pj_tasks, pb_pc, pb_data,
               pb_pending, pb_todo, pb_response, page_ocr_by>>

vars == <<metaVars, uploadVars, jobVars, rebuildVars, assembleVars, storageVars,
          ocrVars, batchVars>>

\* _create_cloud_task returns without raising when the client is missing, the
\* environment is not configured or create_task raises (jobs.py:159-202): the
\* job is then never delivered.  The local executor always takes the job.
DispatchOutcomes == IF job_cloud THEN {"queued", "dropped"} ELSE {"queued"}

\* What the actions of one part leave alone.
OtherThanMeta ==
    UNCHANGED <<uploadVars, jobVars, assembleVars, storageVars, ocrVars, rebuildVars,
                batchVars>>

OtherThanUpload ==
    UNCHANGED <<metaVars, jobVars, assembleVars, storageVars, ocrVars, rebuildVars,
                batchVars>>

OtherThanJobsAndClock ==
    UNCHANGED <<uploadVars, callVars, assembleVars, storageVars, ocrVars, batchVars>>

\* A step of a job or of a create-job request: the session is not idle.
OtherThanJobs ==
    /\ OtherThanJobsAndClock
    /\ rb_row' = 0
    /\ UNCHANGED utc_now

OtherThanAssemble ==
    UNCHANGED <<metaVars, uploadVars, jobVars, storageVars, ocrVars, rebuildVars,
                batchVars>>

\* job_cloud is RUNNING_IN_CLOUD for the OCR service too.
OtherThanOcr ==
    UNCHANGED <<metaVars, uploadVars, jobVars, assembleVars, storageVars, rebuildVars,
                batchVars>>

OtherThanStorage ==
    UNCHANGED <<metaVars, uploadVars, jobVars, assembleVars, ocrVars, rebuildVars,
                batchVars>>

OtherThanBatch ==
    UNCHANGED <<metaVars, uploadVars, jobVars, assembleVars, storageVars, ocrVars,
                rebuildVars>>

(***************************************************************************)
(* Part 1. JobManager.create_job: the append to metadata.json.jobs         *)
(***************************************************************************)

\* Number of overlapping create_job calls on the session.
MaxCalls == 3

Calls == 1..MaxCalls


\* The JobManager instance a call runs on.  The API route builds a new
\* JobManager for every request (job_routes.py:68) and a worker thread builds
\* its own for every job it runs (jobs.py:136); __init__ gives every instance
\* a lock of its own (jobs.py:55).  An instance is named by the call using it.
ManagerOf(c) == c

\* job_id = str(uuid.uuid4()): distinct per call; named by the call.
JobIdOf(c) == c

InitMeta ==
    /\ meta_jobs = << >>
    /\ meta_lock = [m \in Calls |-> NoCall]
    /\ call_kind \in [Calls -> {"api", "job"}]
    /\ call_pc = [c \in Calls |-> "idle"]
    /\ call_metadata = [c \in Calls |-> << >>]
    /\ call_result = [c \in Calls |-> NoCall]
    /\ call_dispatch = [c \in Calls |-> "none"]
    /\ call_status = [c \in Calls |-> 0]

\* `async with self._metadata_lock:` entered (jobs.py:75).
create_job_lock(c) ==
    /\ call_pc[c] = "idle"
    /\ meta_lock[ManagerOf(c)] = NoCall
    /\ meta_lock' = [meta_lock EXCEPT ![ManagerOf(c)] = c]
    /\ call_pc' = [call_pc EXCEPT ![c] = "locked"]
    /\ UNCHANGED <<meta_jobs, call_kind, call_metadata, call_result, call_dispatch,
                   call_status>>
    /\ OtherThanMeta

\* metadata.json read and parsed (jobs.py:76-84); an absent file or an absent
\* "jobs" key both yield the empty array.
create_job_read(c) ==
    /\ call_pc[c] = "locked"
    /\ call_metadata' = [call_metadata EXCEPT ![c] = meta_jobs]
    /\ call_pc' = [call_pc EXCEPT ![c] = "read"]
    /\ UNCHANGED <<meta_jobs, meta_lock, call_kind, call_result, call_dispatch,
                   call_status>>
    /\ OtherThanMeta

\* The entry appended to the local copy and the whole document saved
\* (jobs.py:86-92); leaving the `async with` block releases the lock.
create_job_save(c) ==
    /\ call_pc[c] = "read"
    /\ meta_jobs' = Append(call_metadata[c], JobIdOf(c))
    /\ meta_lock' = [meta_lock EXCEPT ![ManagerOf(c)] = NoCall]
    /\ call_pc' = [call_pc EXCEPT ![c] = "saved"]
    /\ UNCHANGED <<call_kind, call_metadata, call_result, call_dispatch, call_status>>
    /\ OtherThanMeta

\* The payload dispatched and job_id returned (jobs.py:94-123): whatever
\* _create_cloud_task did, it returned normally and line 123 is reached.  The
\* route answers with a CreateJobResponse (job_routes.py:77-81).
create_job_return(c) ==
    /\ call_pc[c] = "saved"
    /\ \E outcome \in DispatchOutcomes :
         call_dispatch' = [call_dispatch EXCEPT ![c] = outcome]
    /\ call_result' = [call_result EXCEPT ![c] = JobIdOf(c)]
    /\ call_pc' = [call_pc EXCEPT ![c] = "returned"]
    /\ call_status' = [call_status EXCEPT ![c] = IF call_kind[c] = "api" THEN 200 ELSE 0]
    /\ UNCHANGED <<meta_jobs, meta_lock, call_kind, call_metadata>>
    /\ OtherThanMeta

\* The values of the JobType enumeration (jobs.py:42-46).
JobTypeValues == {"extract_pages", "ocr", "slice_image"}

\* job_type strings of requests that name no JobType.
OtherJobTypes == {"", "resize"}

\* The inner handler of the route: JobType(request.job_type) raises ValueError
\* and HTTPException(400) is raised in its place (job_routes.py:59-65).
InvalidJobTypeStatus(job_type) ==
    IF job_type \in JobTypeValues THEN 0 ELSE 400

\* The route's outer handler: `except Exception as e: raise HTTPException(500)`
\* (job_routes.py:83-85).  The HTTPException raised inside the try block is an
\* Exception too, so whatever was raised the response is a 500.
CreateJobErrorStatus(raised) == 500

\* POST /api/jobs/create with a job_type that is no JobType value
\* (job_routes.py:51-85): create_job is never called.
create_job_route_rejects(c, job_type) ==
    /\ call_pc[c] = "idle"
    /\ call_kind[c] = "api"
    /\ InvalidJobTypeStatus(job_type) # 0
    /\ call_status' = [call_status EXCEPT
                         ![c] = CreateJobErrorStatus(InvalidJobTypeStatus(job_type))]
    /\ call_pc' = [call_pc EXCEPT ![c] = "rejected"]
    /\ UNCHANGED <<meta_jobs, meta_lock, call_kind, call_metadata, call_result,
                   call_dispatch>>
    /\ OtherThanMeta

NextMeta ==
    \E c \in Calls :
        \/ create_job_lock(c)
        \/ create_job_read(c)
        \/ create_job_save(c)
        \/ create_job_return(c)
        \/ \E job_type \in JobTypeValues \cup OtherJobTypes :
               create_job_route_rejects(c, job_type)

(***************************************************************************)
(* Part 2. The persistent chunked upload (RUNNING_IN_CLOUD = true):        *)
(* start_chunked_job_upload, upload_job_chunk, ChunkedUploadSession        *)
(***************************************************************************)

\* Largest total_chunks a Start call declares.
MaxChunks == 2

\* Number of Chunk calls (upload_job_chunk requests) on the upload_id.
MaxReqs == 2

Reqs == 1..MaxReqs

\* X-Chunk-Number values a Chunk call carries (main.py:912-924 takes any
\* integer): the numbers below total_chunks and those from it upwards.
ChunkNumbers == 0..MaxChunks

\* User hashes a StorageService forms keys under: the anonymous sentinel's
\* (storage_service.py:54) and one named user's.
UserHashes == {"anon", "user"}


NoTracker == [present |-> FALSE, total_chunks |-> 0, chunks_received |-> 0, chunks |-> {}]

InitUpload ==
    /\ up_declared = 0
    /\ up_tracker = [h \in UserHashes |-> NoTracker]
    /\ up_blobs = {}
    /\ up_docs = 0
    /\ up_jobs = 0
    /\ up_pc = [r \in Reqs |-> "idle"]
    /\ up_num = [r \in Reqs |-> 0]
    /\ up_copy = [r \in Reqs |-> NoTracker]
    /\ up_result = [r \in Reqs |-> "none"]

\* The prefix a Chunk call's gateway reads and writes: upload_job_chunk builds
\* StorageService() with no user (main.py:938), hence the anonymous hash.
ChunkUserHash == "anon"

\* The tracker ChunkedUploadSession.create writes (chunked_upload.py:23-33).
NewTracker(total) ==
    [present |-> TRUE, total_chunks |-> total, chunks_received |-> 0, chunks |-> {}]

\* Start: the tracker is written under the caller's user hash
\* (main.py:868-877, StorageService(user_email=user_email)).
start_chunked_job_upload(h, total) ==
    /\ up_declared = 0
    /\ up_declared' = total
    /\ up_tracker' = [up_tracker EXCEPT ![h] = NewTracker(total)]
    /\ UNCHANGED <<up_blobs, up_docs, up_jobs, up_pc, up_num, up_copy, up_result>>
    /\ OtherThanUpload

\* The call ends with the given outcome.
ChunkReturn(r, outcome) ==
    /\ up_pc' = [up_pc EXCEPT ![r] = "done"]
    /\ up_result' = [up_result EXCEPT ![r] = outcome]

\* add_chunk's first part without the duplicate check.
add_chunk_load_unchecked(r, n) ==
    /\ up_pc[r] = "idle"
    /\ up_declared > 0
    /\ up_num' = [up_num EXCEPT ![r] = n]
    /\ LET t == up_tracker[ChunkUserHash] IN
         IF ~t.present
           THEN ChunkReturn(r, "notfound") /\ UNCHANGED up_copy
           ELSE /\ up_pc' = [up_pc EXCEPT ![r] = "loaded"]
                /\ up_copy' = [up_copy EXCEPT ![r] = t]
                /\ UNCHANGED up_result
    /\ UNCHANGED <<up_declared, up_tracker, up_blobs, up_docs, up_jobs>>
    /\ OtherThanUpload

\* add_chunk, first part (chunked_upload.py:55-65): load the tracker; 404 when
\* absent; a chunk number already in `chunks` is a duplicate.
add_chunk_load(r, n) ==
    /\ up_pc[r] = "idle"
    /\ up_declared > 0
    /\ up_num' = [up_num EXCEPT ![r] = n]
    /\ LET t == up_tracker[ChunkUserHash] IN
         IF ~t.present
           THEN ChunkReturn(r, "notfound") /\ UNCHANGED up_copy
           ELSE IF n \in t.chunks
             THEN ChunkReturn(r, "duplicate") /\ UNCHANGED up_copy
             ELSE /\ up_pc' = [up_pc EXCEPT ![r] = "loaded"]
                  /\ up_copy' = [up_copy EXCEPT ![r] = t]
                  /\ UNCHANGED up_result
    /\ UNCHANGED <<up_declared, up_tracker, up_blobs, up_docs, up_jobs>>
    /\ OtherThanUpload

\* The chunk blob saved within the deadline (chunked_upload.py:69-77).
add_chunk_save_blob(r) ==
    /\ up_pc[r] = "loaded"
    /\ up_blobs' = up_blobs \cup {up_num[r]}
    /\ up_pc' = [up_pc EXCEPT ![r] = "blob"]
    /\ UNCHANGED <<up_declared, up_tracker, up_docs, up_jobs, up_num, up_copy, up_result>>
    /\ OtherThanUpload

\* The blob save exceeds 30 s (chunked_upload.py:78-80): the call fails with
\* 503; the upload running in the storage thread may or may not complete.
add_chunk_save_blob_timeout(r) ==
    /\ up_pc[r] = "loaded"
    /\ \E written \in BOOLEAN :
         up_blobs' = IF written THEN up_blobs \cup {up_num[r]} ELSE up_blobs
    /\ ChunkReturn(r, "error")
    /\ UNCHANGED <<up_declared, up_tracker, up_docs, up_jobs, up_num, up_copy>>
    /\ OtherThanUpload

\* session_data as updated by add_chunk (chunked_upload.py:83-85).
UpdatedSession(sd, n) ==
    [sd EXCEPT !.chunks = sd.chunks \cup {n},
               !.chunks_received = sd.chunks_received + 1]

\* The updated session_data persisted (chunked_upload.py:83-91): the whole
\* document, built from the copy loaded at the start of the call.
add_chunk_save_session(r) ==
    /\ up_pc[r] = "blob"
    /\ up_copy' = [up_copy EXCEPT ![r] = UpdatedSession(up_copy[r], up_num[r])]
    /\ up_tracker' = [up_tracker EXCEPT
                        ![ChunkUserHash] = UpdatedSession(up_copy[r], up_num[r])]
    /\ up_pc' = [up_pc EXCEPT ![r] = "saved"]
    /\ UNCHANGED <<up_declared, up_blobs, up_docs, up_jobs, up_num, up_result>>
    /\ OtherThanUpload

\* _save_session raises (storage failure): the exception is re-raised
\* (chunked_upload.py:100-102) with the blob already written.
add_chunk_save_session_fails(r) ==
    /\ up_pc[r] = "blob"
    /\ ChunkReturn(r, "error")
    /\ UNCHANGED <<up_declared, up_tracker, up_blobs, up_docs, up_jobs, up_num, up_copy>>
    /\ OtherThanUpload

\* The verification read (chunked_upload.py:94-98) and the completeness test
\* on the call's own session_data (main.py:967): a tracker deleted meanwhile
\* leaves verify_session empty and the subscript raises.
add_chunk_verify(r) ==
    /\ up_pc[r] = "saved"
    /\ IF ~up_tracker[ChunkUserHash].present
         THEN ChunkReturn(r, "error")
         ELSE IF up_copy[r].chunks_received = up_copy[r].total_chunks
           THEN up_pc' = [up_pc EXCEPT ![r] = "complete"] /\ UNCHANGED up_result
           ELSE ChunkReturn(r, "received")
    /\ UNCHANGED <<up_declared, up_tracker, up_blobs, up_docs, up_jobs, up_num, up_copy>>
    /\ OtherThanUpload

\* Reassembly (main.py:973-981): blobs 0..total_chunks-1 are read in order; a
\* missing blob raises FileNotFoundError.
upload_reassemble(r) ==
    /\ up_pc[r] = "complete"
    /\ IF (0..(up_copy[r].total_chunks - 1)) \subseteq up_blobs
         THEN up_pc' = [up_pc EXCEPT ![r] = "assembled"] /\ UNCHANGED up_result
         ELSE ChunkReturn(r, "error")
    /\ UNCHANGED <<up_declared, up_tracker, up_blobs, up_docs, up_jobs, up_num, up_copy>>
    /\ OtherThanUpload

\* A new session is created, the document saved in it and the processing job
\* started (main.py:995-1000, 1086-1090).
upload_store_and_submit(r) ==
    /\ up_pc[r] = "assembled"
    /\ up_docs' = up_docs + 1
    /\ up_jobs' = up_jobs + 1
    /\ up_pc' = [up_pc EXCEPT ![r] = "submitted"]
    /\ UNCHANGED <<up_declared, up_tracker, up_blobs, up_num, up_copy, up_result>>
    /\ OtherThanUpload

\* cleanup (chunked_upload.py:134-150, main.py:1096): with the tracker still
\* there, blobs 0..total_chunks-1 and the tracker are deleted.
upload_cleanup(r) ==
    /\ up_pc[r] = "submitted"
    /\ LET t == up_tracker[ChunkUserHash] IN
         IF ~t.present
           THEN UNCHANGED <<up_tracker, up_blobs>>
           ELSE /\ up_blobs' = up_blobs \ (0..(t.total_chunks - 1))
                /\ up_tracker' = [up_tracker EXCEPT ![ChunkUserHash] = NoTracker]
    /\ ChunkReturn(r, "complete")
    /\ UNCHANGED <<up_declared, up_docs, up_jobs, up_num, up_copy>>
    /\ OtherThanUpload

NextUpload ==
    \/ \E h \in UserHashes, total \in 1..MaxChunks : start_chunked_job_upload(h, total)
    \/ \E r \in Reqs, n \in ChunkNumbers : add_chunk_load(r, n)
    \/ \E r \in Reqs : add_chunk_save_blob(r)
    \/ \E r \in Reqs : add_chunk_save_blob_timeout(r)
    \/ \E r \in Reqs : add_chunk_save_session(r)
    \/ \E r \in Reqs : add_chunk_save_session_fails(r)
    \/ \E r \in Reqs : add_chunk_verify(r)
    \/ \E r \in Reqs : upload_reassemble(r)
    \/ \E r \in Reqs : upload_store_and_submit(r)
    \/ \E r \in Reqs : upload_cleanup(r)

(***************************************************************************)
(* Part 3. One session: the EXTRACT_PAGES and OCR job chains               *)
(* (JobManager, JobProcessor) and the derived session status               *)
(***************************************************************************)

\* Largest page count of the source document.
MaxPages == 21

\* Pages one EXTRACT_PAGES job covers: end_page = min(start_page + 9, total_pages).
EXTRACT_PAGES_BATCH == 10

\* Pages one OCR job covers.
OCR_BATCH_SIZE == 5

\* Last instant of the wall clock.
MaxTicks == 3

\* Rebuild-status calls in a row that are told apart.
MaxRow == 2


NoStage == [present |-> FALSE, status |-> "", total_pages |-> 0,
            pages_processed |-> 0, progress_percent |-> 0]

NoStatus == [present |-> FALSE, page_extraction |-> NoStage, ocr |-> NoStage,
             updated_at |-> 0]

InitJobs ==
    /\ job_cloud \in BOOLEAN
    /\ doc_pages \in 1..MaxPages
    /\ store_pages = {}
    /\ store_bytes = [p \in {} |-> << >>]
    /\ store_results = {}
    /\ status_doc = NoStatus
    /\ pinned_total = 0
    /\ job_log = << >>
    /\ utc_now = 1
    /\ rb_row = 0

----------------------------------------------------------------------------
\* Storage listing and the status derivation

\* Object names of the session, as <<directory, file, page>>.
TopLevelNames ==
    {<<"", "metadata.json", 0>>, <<"", "source", 0>>}
        \cup (IF status_doc.present THEN {<<"", "session_status.json", 0>>} ELSE {})

PageNames == {<<"pages", "png", p>> : p \in store_pages}

ResultNames == {<<"results", "txt", p>> : p \in store_results}

\* StorageService.list_files(prefix = session_id, session_hash = None): the
\* entries under users/{hash}/{session_id}.  The object store lists every blob
\* under the prefix, nested ones included; the filesystem branch lists the
\* directory itself and keeps regular files only.  Each entry is a dict
\* {'name', 'size', 'modified'}.
list_files(cloud) ==
    LET names == IF cloud THEN TopLevelNames \cup PageNames \cup ResultNames
                          ELSE TopLevelNames
    IN {[name |-> n] : n \in names}

\* f.startswith("pages/page_") and f.endswith(".png") on an object name
IsPageFile(n) == n[1] = "pages" /\ n[2] = "png"

\* f.startswith("results/page_") and f.endswith(".txt") on an object name
IsResultFile(n) == n[1] = "results" /\ n[2] = "txt"

\* [f for f in files if f.startswith(..) and f.endswith(..)] inside
\* try/except Exception (jobs.py:214-220, 224-230).  The elements are dicts,
\* which have no startswith: on a non-empty list the first element raises
\* AttributeError, the handler only logs, and the counter keeps the 0 it was
\* initialised with.  An empty list raises nothing.
ComprehensionRaises(files) == files # {}

\* Python's round() of 100 * processed / total: to nearest, ties to even.
PyRoundPercent(processed, total) ==
    LET q == (100 * processed) \div total
        r == (100 * processed) % total
    IN IF 2 * r < total THEN q
       ELSE IF 2 * r > total THEN q + 1
       ELSE IF q % 2 = 0 THEN q ELSE q + 1

\* A stage entry with the two counts exchanged.
StageCountsSwapped(processed, total) ==
    [present |-> TRUE,
     status |-> IF processed = total /\ total > 0 THEN "complete" ELSE "processing",
     total_pages |-> processed,
     pages_processed |-> total,
     progress_percent |-> 0]

\* A stage entry that is complete as soon as the total is known.
StageCompleteOnTotal(processed, total) ==
    [present |-> TRUE,
     status |-> IF total > 0 THEN "complete" ELSE "processing",
     total_pages |-> total,
     pages_processed |-> processed,
     progress_percent |-> 0]

\* One stage entry (jobs.py:237-242, 249-254).
Stage(processed, total) ==
    [present |-> TRUE,
     status |-> IF processed = total /\ total > 0 THEN "complete" ELSE "processing",
     total_pages |-> total,
     pages_processed |-> processed,
     progress_percent |-> IF total > 0 THEN PyRoundPercent(processed, total) ELSE 0]

\* The derivation with the page_extraction stage emitted unconditionally.
scan_always_emits(cloud, total_pages) ==
    [present |-> TRUE,
     page_extraction |-> [present |-> TRUE, status |-> "processing",
                          total_pages |-> total_pages, pages_processed |-> 0,
                          progress_percent |-> 0],
     ocr |-> NoStage,
     updated_at |-> utc_now]

\* The derivation with session_status.json itself counted as a page image.
scan_counts_status_file(cloud, total_pages) ==
    LET pages_extracted == IF status_doc.present THEN 1 ELSE 0
        actual_total == IF total_pages # 0 THEN total_pages ELSE pages_extracted
    IN [present |-> TRUE,
        page_extraction |->
            IF pages_extracted > 0 \/ total_pages # 0
              THEN Stage(pages_extracted, actual_total)
              ELSE NoStage,
        ocr |-> NoStage,
        updated_at |-> utc_now]

\* scan_and_build_status(session_id, total_pages); total_pages = 0 stands for
\* the default None (both are falsy).  updated_at is datetime.utcnow() at the
\* call (jobs.py:209).
scan_and_build_status(cloud, total_pages) ==
    LET files == list_files(cloud)
        pages_extracted ==
            IF ComprehensionRaises(files)
              THEN 0
              ELSE Cardinality({f \in files : IsPageFile(f.name)})
        ocr_completed ==
            IF ComprehensionRaises(files)
              THEN 0
              ELSE Cardinality({f \in files : IsResultFile(f.name)})
        actual_total == IF total_pages # 0 THEN total_pages ELSE pages_extracted
    IN [present |-> TRUE,
        page_extraction |->
            IF pages_extracted > 0 \/ total_pages # 0
              THEN Stage(pages_extracted, actual_total)
              ELSE NoStage,
        ocr |->
            IF ocr_completed > 0 \/ (pages_extracted > 0 /\ total_pages # 0)
              THEN Stage(ocr_completed, actual_total)
              ELSE NoStage,
        updated_at |-> utc_now]

\* update_session_status(session_id, total_pages = ...): scan, then save the
\* result as session_status.json (jobs.py:258-271).
update_session_status(total_pages) ==
    /\ status_doc' = scan_and_build_status(job_cloud, total_pages)
    /\ pinned_total' = IF total_pages # 0 THEN total_pages ELSE pinned_total

----------------------------------------------------------------------------
\* Jobs

JobIds == 1..Len(job_log)

\* A job whose continuations repeat the batch of the job that created them.
NewJobRepeatingBatch(type, start, total, parent, pc) ==
    [job_type |-> type,
     start_page |-> IF parent = 0 THEN start ELSE 1,
     total_pages |-> total,
     parent |-> parent,
     pc |-> pc,
     end_page |-> 0,
     saved |-> 0,
     tasks |-> 0,
     written |-> {},
     valid |-> {},
     redelivery_of |-> 0,
     record |-> "none",
     continued |-> FALSE]

\* A job as created: its payload (job_type, input_data) and, while it runs,
\* the locals of its handler.
NewJob(type, start, total, parent, pc) ==
    [job_type |-> type,        \* "extract_pages" or "ocr"
     start_page |-> start,     \* input_data["start_page"]
     total_pages |-> total,    \* input_data["total_pages"] (OCR); 0 for EXTRACT_PAGES
     parent |-> parent,        \* the job whose handler created it; 0 for an API request
     pc |-> pc,
     end_page |-> 0,
     saved |-> 0,              \* images of the batch saved so far (the loop's i)
     tasks |-> 0,              \* status-update tasks made by log_progress, not yet run
     written |-> {},           \* pages this job has written
     valid |-> {},             \* OCR: pages whose image loaded (valid_images)
     redelivery_of |-> 0,      \* the job whose payload this run received again; 0: first delivery
     record |-> "none",        \* local mode: result["status"] handed to handle_completion
     continued |-> FALSE]      \* the handler created a continuation job

\* JobManager.create_job (jobs.py:64-123): a new id, the reference appended to
\* metadata.json.jobs, the payload dispatched.
create_job(type, start, total, parent) ==
    \E outcome \in DispatchOutcomes :
        /\ job_log' = Append(job_log, NewJob(type, start, total, parent, outcome))
        /\ meta_jobs' = Append(meta_jobs, Len(job_log) + 1)

HasRoot(type) == \E j \in JobIds : job_log[j].job_type = type /\ job_log[j].parent = 0

\* start_page an EXTRACT_PAGES request carries (input_data is passed on as
\* sent, job_routes.py:70-75): the first page, or a page past the document.
ExtractStarts == {1, doc_pages + 1}

\* POST /api/jobs/create with job_type extract_pages (job_routes.py:51-81).
api_create_extract(start) ==
    /\ ~HasRoot("extract_pages")
    /\ create_job("extract_pages", start, 0, 0)
    /\ UNCHANGED <<job_cloud, doc_pages, store_pages, store_bytes, store_results, status_doc, pinned_total>>
    /\ OtherThanJobs

\* total_pages an OCR request carries: a single page, or the document's count.
OcrTotals == {1, doc_pages}

\* POST /api/jobs/create with job_type ocr, input_data {total_pages, start_page: 1}.
api_create_ocr(total) ==
    /\ ~HasRoot("ocr")
    /\ create_job("ocr", 1, total, 0)
    /\ UNCHANGED <<job_cloud, doc_pages, store_pages, store_bytes, store_results, status_doc, pinned_total>>
    /\ OtherThanJobs

\* No job of the session is running or waiting to run, and no status update
\* is pending.
SessionIdle ==
    \A j \in JobIds :
        job_log[j].pc \in {"done", "failed", "dropped"} /\ job_log[j].tasks = 0

\* POST /api/jobs/{session_id}/rebuild-status (job_routes.py:110-135): the
\* stored document is update_session_status(session_id), no total passed.
rebuild_session_status ==
    /\ update_session_status(0)
    /\ rb_row' = IF SessionIdle THEN Min(rb_row + 1, MaxRow) ELSE 0
    /\ UNCHANGED <<job_cloud, doc_pages, store_pages, store_bytes, store_results, job_log, meta_jobs,
                   utc_now>>
    /\ OtherThanJobsAndClock

\* Time passes: a later datetime.utcnow() returns a later instant.
clock_tick ==
    /\ utc_now < MaxTicks
    /\ utc_now' = utc_now + 1
    /\ UNCHANGED <<jobVars, meta_jobs, rb_row>>
    /\ OtherThanJobsAndClock

\* end_page without the clamp to the document's last page.
ExtractEndPageNoClamp(start_page, total_pages) ==
    start_page + EXTRACT_PAGES_BATCH - 1

\* end_page of an EXTRACT_PAGES batch (jobs.py:363).
ExtractEndPage(start_page, total_pages) ==
    Min(start_page + EXTRACT_PAGES_BATCH - 1, total_pages)

\* Number of images convert_from_bytes(first_page, last_page) returns: none
\* when first_page is past last_page.
BatchImages(job) ==
    IF job.end_page >= job.start_page THEN job.end_page - job.start_page + 1 ELSE 0

\* Tasks log_progress creates for one callback (jobs.py:326-330).
ProgressTasks(status, percent) ==
    IF status = "completed" \/ (status = "processing" /\ percent >= 100) THEN 1 ELSE 0

\* _process_extract_pages_batch up to the save loop (jobs.py:351-378): the
\* document is read, its page count taken, the batch rendered.  With no image
\* rendered the loop body never runs and the "completed" callback follows at
\* once (jobs.py:394-395).
extract_start(j) ==
    LET end == ExtractEndPage(job_log[j].start_page, doc_pages)
        empty == end < job_log[j].start_page
    IN
    /\ job_log[j].job_type = "extract_pages"
    /\ job_log[j].pc = "queued"
    /\ job_log' = [job_log EXCEPT
                     ![j].pc = IF empty THEN "returned" ELSE "saving",
                     ![j].end_page = end,
                     ![j].tasks = IF empty THEN ProgressTasks("completed", 100) ELSE 0]
    /\ UNCHANGED <<job_cloud, doc_pages, store_pages, store_bytes, store_results, status_doc,
                   pinned_total, meta_jobs>>
    /\ OtherThanJobs

\* save_progress of the loop (jobs.py:390): 50 + int((i + 1) / len(images) * 50)
SaveProgress(i, n) == 50 + ((i + 1) * 50) \div n

\* image.save(img_buffer, format='PNG') of the page rendered from the source
\* document (jobs.py:372-385): the bytes depend on the document and the page.
PageImage(page_num) == <<[document |-> doc_pages, page |-> page_num]>>

\* save_file opening the object for appending.
SavePageFileAppending(pages, page_num, image) ==
    [p \in DOMAIN pages \cup {page_num} |->
        IF p = page_num
          THEN (IF p \in DOMAIN pages THEN pages[p] ELSE << >>) \o image
          ELSE pages[p]]

\* storage_service.save_file(bytes, "pages/page_{page_num:03d}.png", session_id):
\* the named object holds the bytes given, whatever it held before
\* (jobs.py:382-386; storage_service.py:147-177).
SavePageFile(pages, page_num, image) ==
    [p \in DOMAIN pages \cup {page_num} |-> IF p = page_num THEN image ELSE pages[p]]

\* One iteration of the save loop (jobs.py:380-392); after the last image the
\* "completed" callback follows with no suspension in between (jobs.py:394-395).
extract_save_page(j) ==
    LET job == job_log[j]
        n == BatchImages(job)
        page_num == job.start_page + job.saved
        last == job.saved + 1 = n
        made == ProgressTasks("processing", SaveProgress(job.saved, n))
                  + (IF last THEN ProgressTasks("completed", 100) ELSE 0)
    IN /\ job.job_type = "extract_pages"
       /\ job.pc = "saving"
       /\ job.saved < n
       /\ store_pages' = store_pages \cup {page_num}
       /\ store_bytes' = SavePageFile(store_bytes, page_num, PageImage(page_num))
       /\ job_log' = [job_log EXCEPT
                        ![j].saved = job.saved + 1,
                        ![j].written = job.written \cup {page_num},
                        ![j].tasks = job.tasks + made,
                        ![j].pc = IF last THEN "returned" ELSE "saving"]
       /\ UNCHANGED <<job_cloud, doc_pages, store_results, status_doc, pinned_total, meta_jobs>>
    /\ OtherThanJobs

\* The source document cannot be read (jobs.py:359): get_file raises
\* FileNotFoundError, or the back-end fails.  The exception leaves
\* _handle_extract_pages before line 334 and process_job logs it
\* (jobs.py:311-312).
extract_read_fails(j) ==
    /\ job_log[j].job_type = "extract_pages"
    /\ job_log[j].pc = "queued"
    /\ job_log' = [job_log EXCEPT ![j].pc = "failed"]
    /\ UNCHANGED <<job_cloud, doc_pages, store_pages, store_bytes, store_results, status_doc,
                   pinned_total, meta_jobs>>
    /\ OtherThanJobs

\* save_file of a page image raises inside the loop (jobs.py:386): the pages
\* saved before stay, the rest of the handler is skipped and process_job logs
\* the exception.
extract_save_fails(j) ==
    /\ job_log[j].job_type = "extract_pages"
    /\ job_log[j].pc = "saving"
    /\ job_log[j].saved < BatchImages(job_log[j])
    /\ job_log' = [job_log EXCEPT ![j].pc = "failed"]
    /\ UNCHANGED <<job_cloud, doc_pages, store_pages, store_bytes, store_results, status_doc,
                   pinned_total, meta_jobs>>
    /\ OtherThanJobs

\* A task made by log_progress runs update_status_callback (jobs.py:319-323,
\* 445-449): EXTRACT_PAGES passes no total, OCR passes its total_pages.
progress_task(j) ==
    /\ job_log[j].tasks > 0
    /\ job_log[j].pc \in {"returned", "exiting", "done"}
    /\ update_session_status(job_log[j].total_pages)
    /\ job_log' = [job_log EXCEPT ![j].tasks = job_log[j].tasks - 1]
    /\ UNCHANGED <<job_cloud, doc_pages, store_pages, store_bytes, store_results, meta_jobs>>
    /\ OtherThanJobs

\* _handle_extract_pages after the batch (jobs.py:334-347): a continuation
\* job, or the final status update with the total.
extract_finish(j) ==
    LET job == job_log[j] IN
    /\ job.job_type = "extract_pages"
    /\ job.pc = "returned"
    /\ IF job.end_page < doc_pages
         THEN /\ \E outcome \in DispatchOutcomes :
                   /\ job_log' = Append([job_log EXCEPT ![j].pc = "exiting",
                                                        ![j].continued = TRUE],
                                        NewJob("extract_pages", job.end_page + 1, 0, j, outcome))
                   /\ meta_jobs' = Append(meta_jobs, Len(job_log) + 1)
              /\ UNCHANGED <<status_doc, pinned_total>>
         ELSE /\ update_session_status(doc_pages)
              /\ job_log' = [job_log EXCEPT ![j].pc = "exiting"]
              /\ UNCHANGED meta_jobs
    /\ UNCHANGED <<job_cloud, doc_pages, store_pages, store_bytes, store_results>>
    /\ OtherThanJobs

\* process_job returns.  In local mode the thread's event loop is closed
\* (jobs.py:147-157) and the tasks still pending on it never run.
job_exit(j) ==
    /\ job_log[j].pc = "exiting"
    /\ job_log' = [job_log EXCEPT
                     ![j].pc = "done",
                     ![j].tasks = IF job_cloud THEN job_log[j].tasks ELSE 0]
    /\ UNCHANGED <<job_cloud, doc_pages, store_pages, store_bytes, store_results, status_doc,
                   pinned_total, meta_jobs>>
    /\ OtherThanJobs

\* Number of payloads delivered a second time.
MaxRedeliveries == 1

Redelivered == {j \in JobIds : job_log[j].redelivery_of # 0}

\* The task queue delivers the payload of job j to the worker endpoint once
\* more after the run of j has finished its batch (at-least-once delivery):
\* process_job runs again with the same job_id, job_type and input_data.
redeliver(j) ==
    /\ job_cloud
    /\ Cardinality(Redelivered) < MaxRedeliveries
    /\ job_log[j].redelivery_of = 0
    /\ job_log[j].pc \in {"returned", "exiting", "done"}
    /\ job_log' = Append(job_log,
                         [NewJob(job_log[j].job_type, job_log[j].start_page,
                                 job_log[j].total_pages, job_log[j].parent, "queued")
                            EXCEPT !.redelivery_of = j])
    /\ UNCHANGED <<job_cloud, doc_pages, store_pages, store_bytes, store_results,
                   status_doc, pinned_total, meta_jobs>>
    /\ OtherThanJobs

\* process_job lets an exception of its handler out: never, since its
\* `except Exception` logs it and falls through (jobs.py:311-312).
ProcessJobRaises(pc) == FALSE

\* result["status"] of _process_job_local_sync_wrapper: initialised to
\* "failed", set to "completed" when run_until_complete returns
\* (jobs.py:139-152).
WrapperStatus(raised) == IF raised THEN "failed" ELSE "completed"

\* Local mode: _process_job_local_sync_wrapper returns its result and the
\* future's done-callback handle_completion receives it (jobs.py:113-120,
\* 147-157), after process_job has returned normally or has logged the
\* exception of its handler.
local_wrapper_returns(j) ==
    /\ ~job_cloud
    /\ job_log[j].pc \in {"done", "failed"}
    /\ job_log[j].record = "none"
    /\ job_log' = [job_log EXCEPT
                     ![j].record = WrapperStatus(ProcessJobRaises(job_log[j].pc))]
    /\ UNCHANGED <<job_cloud, doc_pages, store_pages, store_bytes, store_results,
                   status_doc, pinned_total, meta_jobs>>
    /\ OtherThanJobs

\* end_page of an OCR batch (jobs.py:420-421).
OcrEndPage(start_page, total_pages) ==
    Min(start_page + OCR_BATCH_SIZE - 1, total_pages)

\* _handle_ocr up to the batch call (jobs.py:410-439): the batch's page range
\* and the images that load; a missing image is skipped.
ocr_start(j) ==
    LET job == job_log[j]
        end == OcrEndPage(job.start_page, job.total_pages)
    IN /\ job.job_type = "ocr"
       /\ job.pc = "queued"
       /\ job_log' = [job_log EXCEPT
                        ![j].pc = "loaded",
                        ![j].end_page = end,
                        ![j].valid = (job.start_page..end) \cap store_pages]
       /\ UNCHANGED <<job_cloud, doc_pages, store_pages, store_bytes, store_results, status_doc,
                      pinned_total, meta_jobs>>
    /\ OtherThanJobs

\* The batch call failing with the chaining logic run all the same.
ocr_run_batch_then_chains(j) ==
    /\ job_log[j].job_type = "ocr"
    /\ job_log[j].pc = "loaded"
    /\ IF job_log[j].end_page < job_log[j].total_pages
         THEN \E outcome \in DispatchOutcomes :
                  /\ job_log' = Append([job_log EXCEPT ![j].pc = "failed"],
                                       NewJob("ocr", job_log[j].end_page + 1,
                                              job_log[j].total_pages, j, outcome))
                  /\ meta_jobs' = Append(meta_jobs, Len(job_log) + 1)
         ELSE /\ job_log' = [job_log EXCEPT ![j].pc = "failed"]
              /\ UNCHANGED meta_jobs
    /\ UNCHANGED <<job_cloud, doc_pages, store_pages, store_bytes, store_results, status_doc,
                   pinned_total>>
    /\ OtherThanJobs

\* The batch call (jobs.py:458-460).  app.ocr_service.OCRService defines no
\* run_ocr_on_batch (ocr_service.py:42-1098), so evaluating
\* `ocr_service.run_ocr_on_batch` raises AttributeError; process_job catches
\* and logs it (jobs.py:311-312).  Nothing after line 458 runs: no result file,
\* no status update, no continuation job.
ocr_run_batch(j) ==
    /\ job_log[j].job_type = "ocr"
    /\ job_log[j].pc = "loaded"
    /\ job_log' = [job_log EXCEPT ![j].pc = "failed"]
    /\ UNCHANGED <<job_cloud, doc_pages, store_pages, store_bytes, store_results, status_doc,
                   pinned_total, meta_jobs>>
    /\ OtherThanJobs

NextJobs ==
    \/ \E start \in ExtractStarts : api_create_extract(start)
    \/ \E total \in OcrTotals : api_create_ocr(total)
    \/ rebuild_session_status
    \/ \E j \in JobIds : extract_start(j)
    \/ \E j \in JobIds : extract_read_fails(j)
    \/ \E j \in JobIds : extract_save_page(j)
    \/ \E j \in JobIds : extract_save_fails(j)
    \/ \E j \in JobIds : progress_task(j)
    \/ \E j \in JobIds : extract_finish(j)
    \/ \E j \in JobIds : job_exit(j)
    \/ \E j \in JobIds : ocr_start(j)
    \/ \E j \in JobIds : ocr_run_batch(j)


(***************************************************************************)
(* Part 4. UploadManager: stateless chunk files and assemble_file          *)
(***************************************************************************)

\* Number of add_chunk calls on the session.
MaxUploads == 3

\* Number of assemble_file calls on the session (one at a time).
MaxAssembles == 2

\* len(chunk_data) of the chunks a client sends.
ChunkSizes == {1, 2}

NoChunker ==
    [present |-> FALSE, total_chunks |-> 0, total_size |-> 0, status |-> "none"]

NoResult == [status |-> "none", missing_chunks |-> <<>>]

InitAssemble ==
    /\ as_chunker = NoChunker
    /\ as_files = [name \in {} |-> 0]
    /\ as_arrival = <<>>
    /\ as_sizes = <<>>
    /\ as_output = <<>>
    /\ as_calls = 0
    /\ as_pc = "idle"
    /\ as_data = NoChunker
    /\ as_read = <<>>
    /\ as_result = NoResult

DigitChars == <<"0", "1", "2", "3", "4", "5", "6", "7", "8", "9">>

\* str(n) for n >= 0, one character per element
RECURSIVE DecimalDigits(_)
DecimalDigits(n) ==
    IF n < 10 THEN <<DigitChars[n + 1]>>
    ELSE Append(DecimalDigits(n \div 10), DigitChars[(n % 10) + 1])

\* format(n, "03d"): zero-padded to at least three characters
RECURSIVE ZeroPad3(_)
ZeroPad3(digits) ==
    IF Len(digits) >= 3 THEN digits ELSE ZeroPad3(<<"0">> \o digits)

\* The name list_files reports for chunks/chunk_{n:03d}.bin
ChunkFileName(n) == <<"chunk_">> \o ZeroPad3(DecimalDigits(n)) \o <<".bin">>

\* The name list_files reports for chunks/chunker.json
ChunkerFileName == <<"chunker", ".json">>

DigitValue(ch) == (CHOOSE d \in 1..10 : DigitChars[d] = ch) - 1

\* int(text) for a sequence of digit characters
RECURSIVE ParseInt(_)
ParseInt(digits) ==
    IF digits = <<>> THEN 0
    ELSE 10 * ParseInt(SubSeq(digits, 1, Len(digits) - 1))
             + DigitValue(digits[Len(digits)])

\* f['name'].startswith('chunk_') and f['name'].endswith('.bin')
IsChunkFile(name) == name[1] = "chunk_" /\ name[Len(name)] = ".bin"

\* int(f['name'].split('_')[1].split('.')[0])
ParseChunkNumber(name) == ParseInt(SubSeq(name, 2, Len(name) - 1))

\* storage_service.list_files(prefix="chunks"): the names under chunks/
ListChunkDir ==
    DOMAIN as_files \cup (IF as_chunker.present THEN {ChunkerFileName} ELSE {})

\* sorted(list(S)) for a set of integers
RECURSIVE SortedList(_)
SortedList(S) ==
    IF S = {} THEN <<>>
    ELSE LET m == CHOOSE x \in S : \A y \in S : x <= y
         IN <<m>> \o SortedList(S \ {m})

\* storage_service.save_file(content, name): create or overwrite
SaveFile(files, name, content) ==
    [x \in DOMAIN files \cup {name} |-> IF x = name THEN content ELSE files[x]]

\* storage_service.delete_file for each of names: a missing file is no error
DeleteFiles(files, names) == [x \in DOMAIN files \ names |-> files[x]]

\* UploadManager.start_chunked_upload (uploader.py:38-51)
start_chunked_upload(total, total_size) ==
    /\ ~as_chunker.present
    /\ as_output = <<>>
    /\ as_chunker' = [present |-> TRUE, total_chunks |-> total,
                      total_size |-> total_size, status |-> "uploading"]
    /\ UNCHANGED <<as_files, as_arrival, as_sizes, as_output, as_calls, as_pc, as_data,
                   as_read, as_result>>
    /\ OtherThanAssemble

\* UploadManager.add_chunk (uploader.py:53-57)
add_chunk(n, size) ==
    /\ Len(as_arrival) < MaxUploads
    /\ as_arrival' = Append(as_arrival, n)
    /\ as_sizes' = Append(as_sizes, size)
    /\ as_files' = SaveFile(as_files, ChunkFileName(n), Len(as_arrival) + 1)
    /\ UNCHANGED <<as_chunker, as_output, as_calls, as_pc, as_data, as_read,
                   as_result>>
    /\ OtherThanAssemble

\* assemble_file, step 1: get_status (uploader.py:64-70, 134-140)
assemble_get_status ==
    /\ as_pc = "idle"
    /\ as_calls < MaxAssembles
    /\ as_calls' = as_calls + 1
    /\ IF ~as_chunker.present
         THEN /\ as_result' = [status |-> "notfound", missing_chunks |-> <<>>]
              /\ UNCHANGED <<as_pc, as_data>>
         ELSE /\ as_pc' = "status_read"
              /\ as_data' = as_chunker
              /\ UNCHANGED as_result
    /\ UNCHANGED <<as_chunker, as_files, as_arrival, as_sizes, as_output, as_read>>
    /\ OtherThanAssemble

\* The chunk numbers assemble_file finds stored (uploader.py:72-84)
ReceivedChunks ==
    {ParseChunkNumber(name) : name \in {f \in ListChunkDir : IsChunkFile(f)}}

\* assemble_file's scan when a missing chunk is raised as an error
assemble_scan_raises ==
    /\ as_pc = "status_read"
    /\ LET missing == SortedList((0..(as_data.total_chunks - 1)) \ ReceivedChunks)
       IN IF missing # <<>>
            THEN /\ as_result' = [status |-> "error", missing_chunks |-> <<>>]
                 /\ as_pc' = "idle"
                 /\ UNCHANGED as_read
            ELSE /\ as_pc' = "assembling"
                 /\ as_read' = <<>>
                 /\ UNCHANGED as_result
    /\ UNCHANGED <<as_chunker, as_files, as_arrival, as_sizes, as_output, as_calls, as_data>>
    /\ OtherThanAssemble

\* assemble_file, steps 2-4: list the directory, return the missing chunks
\* (uploader.py:72-96)
assemble_scan ==
    /\ as_pc = "status_read"
    /\ LET missing == SortedList((0..(as_data.total_chunks - 1)) \ ReceivedChunks)
       IN IF missing # <<>>
            THEN /\ as_result' = [status |-> "incomplete", missing_chunks |-> missing]
                 /\ as_pc' = "idle"
                 /\ UNCHANGED as_read
            ELSE /\ as_pc' = "assembling"
                 /\ as_read' = <<>>
                 /\ UNCHANGED as_result
    /\ UNCHANGED <<as_chunker, as_files, as_arrival, as_sizes, as_output, as_calls, as_data>>
    /\ OtherThanAssemble

\* The distinct chunk numbers in the order they first arrived.
RECURSIVE FirstArrivals(_)
FirstArrivals(arrival) ==
    IF arrival = <<>> THEN <<>>
    ELSE LET before == FirstArrivals(SubSeq(arrival, 1, Len(arrival) - 1))
             n == arrival[Len(arrival)]
         IN IF n \in Range(before) THEN before ELSE Append(before, n)

\* read_chunks taking the chunks in the order they arrived
perform_assembly_read_arrival ==
    /\ as_pc = "assembling"
    /\ Len(as_read) < as_data.total_chunks
    /\ LET order == FirstArrivals(as_arrival)
           name == ChunkFileName(order[Len(as_read) + 1])
       IN IF name \in DOMAIN as_files
            THEN /\ as_read' = Append(as_read, as_files[name])
                 /\ UNCHANGED <<as_pc, as_result>>
            ELSE /\ as_result' = [status |-> "error", missing_chunks |-> <<>>]
                 /\ as_pc' = "idle"
                 /\ UNCHANGED as_read
    /\ UNCHANGED <<as_chunker, as_files, as_arrival, as_sizes, as_output, as_calls, as_data>>
    /\ OtherThanAssemble

\* _perform_assembly, read_chunks: one get_file (uploader.py:115-118)
perform_assembly_read ==
    /\ as_pc = "assembling"
    /\ Len(as_read) < as_data.total_chunks
    /\ LET name == ChunkFileName(Len(as_read))
       IN IF name \in DOMAIN as_files
            THEN /\ as_read' = Append(as_read, as_files[name])
                 /\ UNCHANGED <<as_pc, as_result>>
            ELSE /\ as_result' = [status |-> "error", missing_chunks |-> <<>>]
                 /\ as_pc' = "idle"
                 /\ UNCHANGED as_read
    /\ UNCHANGED <<as_chunker, as_files, as_arrival, as_sizes, as_output, as_calls, as_data>>
    /\ OtherThanAssemble

\* _perform_assembly: save_file_stream has consumed read_chunks (uploader.py:120)
perform_assembly_save ==
    /\ as_pc = "assembling"
    /\ Len(as_read) = as_data.total_chunks
    /\ as_output' = as_read
    /\ as_pc' = "assembled"
    /\ UNCHANGED <<as_chunker, as_files, as_arrival, as_sizes, as_calls, as_data, as_read,
                   as_result>>
    /\ OtherThanAssemble

\* assemble_file, step 6: save chunker.json as complete (uploader.py:102-106)
assemble_save_status ==
    /\ as_pc = "assembled"
    /\ as_data' = [as_data EXCEPT !.status = "complete"]
    /\ as_chunker' = as_data'
    /\ as_pc' = "saved"
    /\ UNCHANGED <<as_files, as_arrival, as_sizes, as_output, as_calls, as_read, as_result>>
    /\ OtherThanAssemble

\* _cleanup_session_files, then assemble_file returns chunker_data
\* (uploader.py:107-109, 123-132)
cleanup_session_files ==
    /\ as_pc = "saved"
    /\ as_files' = DeleteFiles(as_files,
           {ChunkFileName(i) : i \in 0..(as_data.total_chunks - 1)})
    /\ as_chunker' = NoChunker
    /\ as_result' = [status |-> "complete", missing_chunks |-> <<>>]
    /\ as_pc' = "idle"
    /\ UNCHANGED <<as_arrival, as_sizes, as_output, as_calls, as_data, as_read>>
    /\ OtherThanAssemble

\* What _cleanup_session_files deletes (uploader.py:127-131)
CleanupTargets ==
    {ChunkFileName(i) : i \in 0..(as_data.total_chunks - 1)} \cup {ChunkerFileName}

\* The process dies inside assemble_file after the scan found every chunk and
\* before _cleanup_session_files: what the call held in memory is lost,
\* storage stays as it is (uploader.py:98-106).
assemble_crash ==
    /\ as_pc \in {"assembling", "assembled"}
    /\ as_pc' = "idle"
    /\ as_read' = <<>>
    /\ as_result' = [status |-> "crashed", missing_chunks |-> <<>>]
    /\ UNCHANGED <<as_chunker, as_files, as_arrival, as_sizes, as_output, as_calls,
                   as_data>>
    /\ OtherThanAssemble

\* The process dies inside _cleanup_session_files: asyncio.gather runs the
\* deletes concurrently, so any of them may have happened (uploader.py:126-132).
cleanup_crash ==
    /\ as_pc = "saved"
    /\ \E gone \in SUBSET CleanupTargets :
         /\ as_files' = DeleteFiles(as_files, gone)
         /\ as_chunker' = IF ChunkerFileName \in gone THEN NoChunker ELSE as_chunker
    /\ as_pc' = "idle"
    /\ as_read' = <<>>
    /\ as_result' = [status |-> "crashed", missing_chunks |-> <<>>]
    /\ UNCHANGED <<as_arrival, as_sizes, as_output, as_calls, as_data>>
    /\ OtherThanAssemble

NextAssemble ==
    \/ \E total \in 1..MaxChunks :
         \E total_size \in total..(2 * total) :
           start_chunked_upload(total, total_size)
    \/ \E n \in ChunkNumbers, size \in ChunkSizes : add_chunk(n, size)
    \/ assemble_get_status
    \/ assemble_scan
    \/ perform_assembly_read
    \/ perform_assembly_save
    \/ assemble_save_status
    \/ cleanup_session_files
    \/ assemble_crash
    \/ cleanup_crash

(***************************************************************************)
(* Part 5. StorageService: keys, save, get, delete, list and sessions      *)
(***************************************************************************)

\* Number of save_file calls (create_session's metadata save included).
MaxSaves == 2

StorageUsers == {"u1", "u2"}

\* _compute_user_hash: two users whose hashes differ
UserHash(u) == IF u = "u1" THEN "h1" ELSE "h2"

\* The uuid4 values create_session draws.
SessionIds == {"s1"}

\* File names, one element per "/"-separated part.
FileNames == {<<"a.txt">>, <<"pages", "p.png">>}

MetadataName == <<"metadata.json">>

\* session_hash as a caller may pass it: a session id, or a relative path to
\* the session of another user.
SessionArgs(u) ==
    {<<sid>> : sid \in SessionIds}
        \cup {<<"..", UserHash(v), sid>> : v \in StorageUsers \ {u}, sid \in SessionIds}

NoContent == [owner |-> "none", number |-> 0, whole |-> TRUE]

NoWrite == [active |-> FALSE, by |-> "none", key |-> <<>>, content |-> NoContent,
            creates |-> "none"]

NotFound == [status |-> "notfound", content |-> NoContent]

Found(content) == [status |-> "found", content |-> content]

NoOp == [kind |-> "none", by |-> "none", session |-> <<>>, overlapped |-> FALSE,
         gcs |-> NotFound, fs |-> NotFound, gcs_names |-> {}, fs_names |-> {}]

NoObjects == [key \in {} |-> NoContent]

InitStorage ==
    /\ gcs_objects = NoObjects
    /\ fs_files = NoObjects
    /\ st_write = NoWrite
    /\ st_saves = 0
    /\ st_created = [sid \in SessionIds |-> "none"]
    /\ st_last_gcs = NoObjects
    /\ st_last_fs = NoObjects
    /\ st_op = NoOp

\* get_user_path (storage_service.py:109-111)
get_user_path(hash) == <<"users", hash>>

\* get_session_path (storage_service.py:113-115)
get_session_path(hash, session_hash) == get_user_path(hash) \o session_hash

\* get_session_file_path without subfolder (storage_service.py:117-123)
get_session_file_path(hash, session_hash, filename) ==
    get_session_path(hash, session_hash) \o filename

\* The file a path names below the storage root: the operating system
\* resolves each ".." part against the directory before it.
RECURSIVE ResolveFrom(_, _)
ResolveFrom(done, rest) ==
    IF rest = <<>> THEN done
    ELSE IF Head(rest) = ".."
           THEN ResolveFrom(IF done = <<>> THEN <<>>
                            ELSE SubSeq(done, 1, Len(done) - 1), Tail(rest))
           ELSE ResolveFrom(Append(done, Head(rest)), Tail(rest))

ResolvePath(path) == ResolveFrom(<<>>, path)

\* blob.reload / download_as_bytes, and open(full_path, 'rb').read()
\* (storage_service.py:267-291)
ReadKey(objects, key) ==
    IF key \in DOMAIN objects THEN Found(objects[key]) ELSE NotFound

WriteKey(objects, key, content) ==
    [k \in DOMAIN objects \cup {key} |-> IF k = key THEN content ELSE objects[k]]

RemoveKeys(objects, keys) == [k \in DOMAIN objects \ keys |-> objects[k]]

Returned(kind, u, session, gcs, fs) ==
    [kind |-> kind, by |-> u, session |-> session, overlapped |-> st_write.active,
     gcs |-> gcs, fs |-> fs, gcs_names |-> {}, fs_names |-> {}]

\* save_file up to the point where the local branch has opened the file for
\* writing: open(full_path, 'wb') truncates it (storage_service.py:139-174).
\* The object-store branch has not uploaded yet.
BeginSave(u, key, creates) ==
    LET content == [owner |-> u, number |-> st_saves + 1, whole |-> TRUE]
    IN /\ ~st_write.active
       /\ st_saves < MaxSaves
       /\ st_saves' = st_saves + 1
       /\ st_write' = [active |-> TRUE, by |-> u, key |-> key, content |-> content,
                       creates |-> creates]
       /\ fs_files' = WriteKey(fs_files, ResolvePath(key),
                               [content EXCEPT !.whole = FALSE])
       /\ UNCHANGED <<gcs_objects, st_last_gcs, st_last_fs, st_op>>

st_save_file_begin(u, session, filename) ==
    /\ BeginSave(u, get_session_file_path(UserHash(u), session, filename), "none")
    /\ UNCHANGED st_created
    /\ OtherThanStorage

\* create_session: a fresh uuid4, then save_session_metadata
\* (storage_service.py:441-475)
create_session_begin(u, sid) ==
    /\ st_created[sid] = "none"
    /\ BeginSave(u, get_session_file_path(UserHash(u), <<sid>>, MetadataName), sid)
    /\ st_created' = [st_created EXCEPT ![sid] = "pending"]
    /\ OtherThanStorage

\* save_file returns: blob.upload_from_string has replaced the object, the
\* local file is written and closed (storage_service.py:147-180).
st_save_file_finish ==
    /\ st_write.active
    /\ gcs_objects' = WriteKey(gcs_objects, st_write.key, st_write.content)
    /\ fs_files' = WriteKey(fs_files, ResolvePath(st_write.key), st_write.content)
    /\ st_last_gcs' = WriteKey(st_last_gcs, st_write.key, st_write.content)
    /\ st_last_fs' = WriteKey(st_last_fs, ResolvePath(st_write.key), st_write.content)
    /\ st_created' = IF st_write.creates = "none" THEN st_created
                     ELSE [st_created EXCEPT ![st_write.creates] = st_write.by]
    /\ st_op' = [Returned("save", st_write.by, <<>>, Found(st_write.content),
                          Found(st_write.content)) EXCEPT !.overlapped = FALSE]
    /\ st_write' = NoWrite
    /\ UNCHANGED st_saves
    /\ OtherThanStorage

\* The process dies inside save_file: nothing was uploaded, the local file
\* stays as the interrupted write left it.
st_save_file_crash ==
    /\ st_write.active
    /\ st_created' = IF st_write.creates = "none" THEN st_created
                     ELSE [st_created EXCEPT ![st_write.creates] = "lost"]
    /\ st_op' = [Returned("crash", st_write.by, <<>>, NotFound, NotFound)
                    EXCEPT !.overlapped = FALSE]
    /\ st_write' = NoWrite
    /\ UNCHANGED <<gcs_objects, fs_files, st_saves, st_last_gcs, st_last_fs>>
    /\ OtherThanStorage

\* get_file (storage_service.py:246-293)
st_get_file(u, session, filename) ==
    LET key == get_session_file_path(UserHash(u), session, filename)
    IN /\ st_op' = Returned("get", u, session, ReadKey(gcs_objects, key),
                            ReadKey(fs_files, ResolvePath(key)))
       /\ UNCHANGED <<gcs_objects, fs_files, st_write, st_saves, st_created,
                      st_last_gcs, st_last_fs>>
       /\ OtherThanStorage

\* GET /storage/{user_hash}/{session_hash}/{filename:path}: an anonymous
\* StorageService whose _user_hash is overwritten with the hash of the URL
\* (main.py:1542-1565).  u is the caller.
serve_user_file(u, user_hash, sid, filename) ==
    LET key == get_session_file_path(user_hash, <<sid>>, filename)
    IN /\ st_op' = Returned("serve", u, <<sid>>, ReadKey(gcs_objects, key),
                            ReadKey(fs_files, ResolvePath(key)))
       /\ UNCHANGED <<gcs_objects, fs_files, st_write, st_saves, st_created,
                      st_last_gcs, st_last_fs>>
       /\ OtherThanStorage

\* delete_file (storage_service.py:295-330)
st_delete_file(u, session, filename) ==
    LET key == get_session_file_path(UserHash(u), session, filename)
    IN /\ st_op' = Returned("delete", u, session, ReadKey(gcs_objects, key),
                            ReadKey(fs_files, ResolvePath(key)))
       /\ gcs_objects' = RemoveKeys(gcs_objects, {key})
       /\ fs_files' = RemoveKeys(fs_files, {ResolvePath(key)})
       /\ st_last_gcs' = RemoveKeys(st_last_gcs, {key})
       /\ st_last_fs' = RemoveKeys(st_last_fs, {ResolvePath(key)})
       /\ UNCHANGED <<st_write, st_saves, st_created>>
       /\ OtherThanStorage

\* list_blobs(prefix = search_prefix), each name with search_prefix + "/"
\* removed (storage_service.py:357-368)
list_gcs_blobs(search_prefix) ==
    {SubSeq(name, Len(search_prefix) + 1, Len(name)) :
        name \in {n \in DOMAIN gcs_objects : IsPrefix(search_prefix, n)}}

\* os.listdir(full_path), keeping the entries that are files
\* (storage_service.py:371-385)
list_local_files(search_prefix) ==
    LET dir == ResolvePath(search_prefix)
    IN {<<path[Len(path)]>> :
           path \in {q \in DOMAIN fs_files : Len(q) = Len(dir) + 1 /\ IsPrefix(dir, q)}}

\* list_files(prefix, session_hash) (storage_service.py:332-389); prefix = <<>>
\* stands for None
st_list_files(u, prefix, session) ==
    LET search_prefix == get_session_path(UserHash(u), session) \o prefix
    IN /\ st_op' = [Returned("list", u, session, NotFound, NotFound)
                       EXCEPT !.gcs_names = list_gcs_blobs(search_prefix),
                              !.fs_names = list_local_files(search_prefix)]
       /\ UNCHANGED <<gcs_objects, fs_files, st_write, st_saves, st_created,
                      st_last_gcs, st_last_fs>>
       /\ OtherThanStorage

\* validate_session's comparison with every stored session accepted.
SessionBelongsToAnyone(metadata, u) == TRUE

\* stored_user_hash == self._user_hash (storage_service.py:494-498); the
\* metadata create_session wrote carries its caller's hash
SessionBelongs(metadata, u) == UserHash(metadata.owner) = UserHash(u)

Answer(status) == [status |-> status, content |-> NoContent]

\* validate_session on what get_file("metadata.json", session_hash) gave
\* (storage_service.py:479-506): json.loads raises on a truncated file
Validated(read, u) ==
    IF read.status = "notfound" THEN "false"
    ELSE IF ~read.content.whole THEN "error"
    ELSE IF SessionBelongs(read.content, u) THEN "true" ELSE "false"

st_validate_session(u, session) ==
    LET key == get_session_file_path(UserHash(u), session, MetadataName)
    IN /\ st_op' = Returned("validate", u, session,
                            Answer(Validated(ReadKey(gcs_objects, key), u)),
                            Answer(Validated(ReadKey(fs_files, ResolvePath(key)), u)))
       /\ UNCHANGED <<gcs_objects, fs_files, st_write, st_saves, st_created,
                      st_last_gcs, st_last_fs>>
       /\ OtherThanStorage

Under(objects, path) == {k \in DOMAIN objects : IsPrefix(path, k)}

\* delete_session (storage_service.py:509-534)
st_delete_session(u, session) ==
    LET key == get_session_file_path(UserHash(u), session, MetadataName)
        session_path == get_session_path(UserHash(u), session)
        gcs_valid == Validated(ReadKey(gcs_objects, key), u)
        fs_valid == Validated(ReadKey(fs_files, ResolvePath(key)), u)
        gcs_gone == IF gcs_valid = "true" THEN Under(gcs_objects, session_path) ELSE {}
        fs_gone == IF fs_valid = "true"
                     THEN Under(fs_files, ResolvePath(session_path)) ELSE {}
    IN /\ st_op' = Returned("delete_session", u, session,
                            Answer(gcs_valid), Answer(fs_valid))
       /\ gcs_objects' = RemoveKeys(gcs_objects, gcs_gone)
       /\ fs_files' = RemoveKeys(fs_files, fs_gone)
       /\ st_last_gcs' = RemoveKeys(st_last_gcs, gcs_gone)
       /\ st_last_fs' = RemoveKeys(st_last_fs, fs_gone)
       /\ UNCHANGED <<st_write, st_saves, st_created>>
       /\ OtherThanStorage

NextStorage ==
    \/ \E u \in StorageUsers, filename \in FileNames :
         \E session \in SessionArgs(u) : st_save_file_begin(u, session, filename)
    \/ st_save_file_finish
    \/ st_save_file_crash
    \/ \E u \in StorageUsers, filename \in FileNames :
         \E session \in SessionArgs(u) : st_get_file(u, session, filename)
    \/ \E u \in StorageUsers, v \in StorageUsers, sid \in SessionIds, filename \in FileNames :
         serve_user_file(u, UserHash(v), sid, filename)
    \/ \E u \in StorageUsers, filename \in FileNames :
         \E session \in SessionArgs(u) : st_delete_file(u, session, filename)
    \/ \E u \in StorageUsers, prefix \in {<<>>, <<"pages">>} :
         \E session \in SessionArgs(u) : st_list_files(u, prefix, session)

NextSessions ==
    \/ \E u \in StorageUsers, sid \in SessionIds : create_session_begin(u, sid)
    \/ \E u \in StorageUsers, filename \in FileNames :
         \E session \in SessionArgs(u) : st_save_file_begin(u, session, filename)
    \/ st_save_file_finish
    \/ st_save_file_crash
    \/ \E u \in StorageUsers : \E session \in SessionArgs(u) : st_validate_session(u, session)
    \/ \E u \in StorageUsers : \E session \in SessionArgs(u) : st_delete_session(u, session)

(***************************************************************************)
(* Part 6. OCRService: model loading, process_image and submit_job         *)
(***************************************************************************)

\* Number of _background_load threads that can be started.
MaxLoaders == 2

\* Number of process_image calls.
MaxInferences == 2

\* Number of submit_job calls.
MaxSubmits == 2

Loaders == 1..MaxLoaders

Inferences == 1..MaxInferences

OcrJobs == 1..MaxSubmits

\* OCRService.__init__ (ocr_service.py:45-65): in local mode the loader thread
\* has been started, in cloud mode none has.
InitOcr ==
    /\ model_loaded = FALSE
    /\ loading = FALSE
    /\ load_failed = FALSE
    /\ job_queue = <<>>
    /\ ld_pc = [l \in Loaders |->
                  IF ~job_cloud /\ l = 1 THEN "started" ELSE "unstarted"]
    /\ ld_todo = [l \in Loaders |-> <<>>]
    /\ ocr_status = [j \in OcrJobs |-> "none"]
    /\ ocr_started = [j \in OcrJobs |-> 0]
    /\ sj_pc = [j \in OcrJobs |-> "idle"]
    /\ pi_pc = [r \in Inferences |-> "idle"]
    /\ pi_result = [r \in Inferences |-> "none"]
    /\ sj_early = [j \in OcrJobs |-> FALSE]
    /\ pi_early = [r \in Inferences |-> FALSE]

\* The thread started by __init__ has not run its first statement yet.
EagerLoaderPending == ld_pc[1] = "started" /\ ~job_cloud

\* threading.Thread(target=self._background_load).start(): the new thread has
\* not run its first statement yet.
StartLoader(pc) ==
    LET l == CHOOSE x \in Loaders : pc[x] = "unstarted"
    IN [pc EXCEPT ![l] = "started"]

CanStartLoader == \E l \in Loaders : ld_pc[l] = "unstarted"

\* _background_load: self._loading = True (ocr_service.py:69)
background_load_begin(l) ==
    /\ ld_pc[l] = "started"
    /\ loading' = TRUE
    /\ ld_pc' = [ld_pc EXCEPT ![l] = "loading"]
    /\ UNCHANGED <<model_loaded, load_failed, job_queue, ld_todo, ocr_status,
                   ocr_started, sj_pc, pi_pc, pi_result>>
    /\ UNCHANGED <<sj_early, pi_early>>
    /\ OtherThanOcr

\* load_model entered: `if self._model_loaded: return` (ocr_service.py:72,
\* 105-109); on the early return _background_load goes on at line 73.
load_model_enter(l) ==
    /\ ld_pc[l] = "loading"
    /\ ld_pc' = [ld_pc EXCEPT ![l] = IF model_loaded THEN "loaded" ELSE "load_running"]
    /\ UNCHANGED <<model_loaded, loading, load_failed, job_queue, ld_todo, ocr_status,
                   ocr_started, sj_pc, pi_pc, pi_result>>
    /\ UNCHANGED <<sj_early, pi_early>>
    /\ OtherThanOcr

\* load_model has read the model and returns: self._model_loaded = True
\* (ocr_service.py:111-340, 73)
background_load_loaded(l) ==
    /\ ld_pc[l] = "load_running"
    /\ model_loaded' = TRUE
    /\ ld_pc' = [ld_pc EXCEPT ![l] = "loaded"]
    /\ UNCHANGED <<loading, load_failed, job_queue, ld_todo, ocr_status,
                   ocr_started, sj_pc, pi_pc, pi_result>>
    /\ UNCHANGED <<sj_early, pi_early>>
    /\ OtherThanOcr

\* load_model raises: self._model_loaded = False (ocr_service.py:82-84, 343-347)
background_load_fails(l) ==
    /\ ld_pc[l] = "load_running"
    /\ model_loaded' = FALSE
    /\ load_failed' = TRUE
    /\ ld_pc' = [ld_pc EXCEPT ![l] = "finally"]
    /\ UNCHANGED <<loading, job_queue, ld_todo, ocr_status, ocr_started, sj_pc,
                   pi_pc, pi_result>>
    /\ UNCHANGED <<sj_early, pi_early>>
    /\ OtherThanOcr

\* for job_id in list(self.job_queue): the copy is taken (ocr_service.py:78)
background_load_snapshot(l) ==
    /\ ld_pc[l] = "loaded"
    /\ ld_todo' = [ld_todo EXCEPT ![l] = job_queue]
    /\ ld_pc' = [ld_pc EXCEPT ![l] = "draining"]
    /\ UNCHANGED <<model_loaded, loading, load_failed, job_queue, ocr_status,
                   ocr_started, sj_pc, pi_pc, pi_result>>
    /\ UNCHANGED <<sj_early, pi_early>>
    /\ OtherThanOcr

\* list.remove(x): the first occurrence goes
RECURSIVE RemoveFirst(_, _)
RemoveFirst(queue, x) ==
    IF queue = <<>> THEN <<>>
    ELSE IF Head(queue) = x THEN Tail(queue)
    ELSE <<Head(queue)>> \o RemoveFirst(Tail(queue), x)

\* process_job_async(job_id): the job's thread is started and sets the status
\* (ocr_service.py:787-794)
ProcessJobAsync(j) ==
    /\ ocr_started' = [ocr_started EXCEPT ![j] = @ + 1]
    /\ ocr_status' = [ocr_status EXCEPT ![j] = "processing"]

\* One turn of the loop: process_job_async, then self.job_queue.remove; a
\* remove of a job that is no longer queued raises ValueError, which the
\* handler of _background_load takes for a failed load (ocr_service.py:78-84)
background_load_drain(l) ==
    /\ ld_pc[l] = "draining"
    /\ IF ld_todo[l] = <<>>
         THEN /\ ld_pc' = [ld_pc EXCEPT ![l] = "finally"]
              /\ UNCHANGED <<model_loaded, job_queue, ld_todo, ocr_status, ocr_started>>
         ELSE LET j == Head(ld_todo[l])
              IN /\ ProcessJobAsync(j)
                 /\ IF j \in Range(job_queue)
                      THEN /\ job_queue' = RemoveFirst(job_queue, j)
                           /\ ld_todo' = [ld_todo EXCEPT ![l] = Tail(@)]
                           /\ UNCHANGED <<model_loaded, ld_pc>>
                      ELSE /\ model_loaded' = FALSE
                           /\ ld_pc' = [ld_pc EXCEPT ![l] = "finally"]
                           /\ UNCHANGED <<job_queue, ld_todo>>
    /\ UNCHANGED <<loading, load_failed, sj_pc, pi_pc, pi_result>>
    /\ UNCHANGED <<sj_early, pi_early>>
    /\ OtherThanOcr

\* finally: self._loading = False (ocr_service.py:85-86)
background_load_finally(l) ==
    /\ ld_pc[l] = "finally"
    /\ loading' = FALSE
    /\ ld_pc' = [ld_pc EXCEPT ![l] = "done"]
    /\ UNCHANGED <<model_loaded, load_failed, job_queue, ld_todo, ocr_status,
                   ocr_started, sj_pc, pi_pc, pi_result>>
    /\ UNCHANGED <<sj_early, pi_early>>
    /\ OtherThanOcr

\* process_image: if not self._model_loaded (ocr_service.py:357)
process_image_check_loaded(r) ==
    /\ pi_pc[r] = "idle"
    /\ pi_early' = [pi_early EXCEPT ![r] = EagerLoaderPending]
    /\ IF model_loaded
         THEN /\ pi_pc' = [pi_pc EXCEPT ![r] = "done"]
              /\ pi_result' = [pi_result EXCEPT ![r] = "ran"]
         ELSE /\ pi_pc' = [pi_pc EXCEPT ![r] = "not_loaded"]
              /\ UNCHANGED pi_result
    /\ UNCHANGED <<model_loaded, loading, load_failed, job_queue, ld_pc, ld_todo,
                   ocr_status, ocr_started, sj_pc>>
    /\ UNCHANGED sj_early
    /\ OtherThanOcr

\* process_image: if self._loading, else start the load in cloud mode, else
\* raise (ocr_service.py:358-359, 366-376)
process_image_check_loading(r) ==
    /\ pi_pc[r] = "not_loaded"
    /\ IF loading
         THEN /\ pi_pc' = [pi_pc EXCEPT ![r] = "waiting"]
              /\ UNCHANGED <<ld_pc, pi_result>>
         ELSE IF job_cloud
           THEN /\ CanStartLoader
                /\ ld_pc' = StartLoader(ld_pc)
                /\ pi_pc' = [pi_pc EXCEPT ![r] = "waiting"]
                /\ UNCHANGED pi_result
           ELSE /\ pi_pc' = [pi_pc EXCEPT ![r] = "done"]
                /\ pi_result' = [pi_result EXCEPT ![r] = "Model not loaded and not loading"]
                /\ UNCHANGED ld_pc
    /\ UNCHANGED <<model_loaded, loading, load_failed, job_queue, ld_todo,
                   ocr_status, ocr_started, sj_pc>>
    /\ UNCHANGED <<sj_early, pi_early>>
    /\ OtherThanOcr

\* process_image: while self._loading and not self._model_loaded: the loop is
\* left (ocr_service.py:361-362, 372-373)
process_image_wait(r) ==
    /\ pi_pc[r] = "waiting"
    /\ ~(loading /\ ~model_loaded)
    /\ pi_pc' = [pi_pc EXCEPT ![r] = "woken"]
    /\ UNCHANGED <<model_loaded, loading, load_failed, job_queue, ld_pc, ld_todo,
                   ocr_status, ocr_started, sj_pc, pi_result>>
    /\ UNCHANGED <<sj_early, pi_early>>
    /\ OtherThanOcr

\* process_image: if not self._model_loaded: raise (ocr_service.py:363-364, 374-375)
process_image_after_wait(r) ==
    /\ pi_pc[r] = "woken"
    /\ pi_pc' = [pi_pc EXCEPT ![r] = "done"]
    /\ pi_result' = [pi_result EXCEPT ![r] =
                       IF model_loaded THEN "ran" ELSE "Model loading failed"]
    /\ UNCHANGED <<model_loaded, loading, load_failed, job_queue, ld_pc, ld_todo,
                   ocr_status, ocr_started, sj_pc>>
    /\ UNCHANGED <<sj_early, pi_early>>
    /\ OtherThanOcr

\* submit_job: the job is recorded as queued, then if not self._model_loaded
\* (ocr_service.py:669-698, 762, 780-783)
submit_job_begin(j) ==
    /\ sj_pc[j] = "idle"
    /\ sj_early' = [sj_early EXCEPT ![j] = EagerLoaderPending]
    /\ IF model_loaded
         THEN /\ ProcessJobAsync(j)
              /\ sj_pc' = [sj_pc EXCEPT ![j] = "done"]
         ELSE /\ ocr_status' = [ocr_status EXCEPT ![j] = "queued"]
              /\ sj_pc' = [sj_pc EXCEPT ![j] = "not_loaded"]
              /\ UNCHANGED ocr_started
    /\ UNCHANGED <<model_loaded, loading, load_failed, job_queue, ld_pc, ld_todo,
                   pi_pc, pi_result>>
    /\ UNCHANGED pi_early
    /\ OtherThanOcr

\* submit_job: if self._loading, else start the load in cloud mode, else mark
\* the job failed (ocr_service.py:763, 766-779)
submit_job_check_loading(j) ==
    /\ sj_pc[j] = "not_loaded"
    /\ IF loading
         THEN /\ sj_pc' = [sj_pc EXCEPT ![j] = "append"]
              /\ UNCHANGED <<ld_pc, ocr_status>>
         ELSE IF job_cloud
           THEN /\ CanStartLoader
                /\ ld_pc' = StartLoader(ld_pc)
                /\ sj_pc' = [sj_pc EXCEPT ![j] = "append"]
                /\ UNCHANGED ocr_status
           ELSE /\ ocr_status' = [ocr_status EXCEPT ![j] = "failed"]
                /\ sj_pc' = [sj_pc EXCEPT ![j] = "done"]
                /\ UNCHANGED ld_pc
    /\ UNCHANGED <<model_loaded, loading, load_failed, job_queue, ld_todo,
                   ocr_started, pi_pc, pi_result>>
    /\ UNCHANGED <<sj_early, pi_early>>
    /\ OtherThanOcr

\* submit_job: self.job_queue.append(job_id) (ocr_service.py:765, 773)
submit_job_append(j) ==
    /\ sj_pc[j] = "append"
    /\ job_queue' = Append(job_queue, j)
    /\ sj_pc' = [sj_pc EXCEPT ![j] = "done"]
    /\ UNCHANGED <<model_loaded, loading, load_failed, ld_pc, ld_todo,
                   ocr_status, ocr_started, pi_pc, pi_result>>
    /\ UNCHANGED <<sj_early, pi_early>>
    /\ OtherThanOcr

NextOcr ==
    \/ \E l \in Loaders : background_load_begin(l)
    \/ \E l \in Loaders : load_model_enter(l)
    \/ \E l \in Loaders : background_load_loaded(l)
    \/ \E l \in Loaders : background_load_fails(l)
    \/ \E l \in Loaders : background_load_snapshot(l)
    \/ \E l \in Loaders : background_load_drain(l)
    \/ \E l \in Loaders : background_load_finally(l)
    \/ \E r \in Inferences : process_image_check_loaded(r)
    \/ \E r \in Inferences : process_image_check_loading(r)
    \/ \E r \in Inferences : process_image_wait(r)
    \/ \E r \in Inferences : process_image_after_wait(r)
    \/ \E j \in OcrJobs : submit_job_begin(j)
    \/ \E j \in OcrJobs : submit_job_check_loading(j)
    \/ \E j \in OcrJobs : submit_job_append(j)

\* Every _background_load thread that was started has returned.
LoadersFinished == \A l \in Loaders : ld_pc[l] \in {"unstarted", "done"}

\* C28: a process_image call that arrives once the service is up (in local
\* mode: once the eager loader thread is running) and finds the model not
\* loaded raises only when load_model itself has failed: while no load has
\* failed, no such call has raised.
C28_FailsOnlyIfLoadFails ==
    \A r \in Inferences :
        (/\ ~pi_early[r]
         /\ pi_result[r] \in {"Model loading failed", "Model not loaded and not loading"})
            => load_failed

\* C29: in local mode a job submitted once the eager loader thread is running
\* is never marked failed while no load has failed, is started at most once,
\* and once the loader has returned from a successful load and the submit_job
\* call is over, it has been started exactly once and is no longer queued.
C29_QueuedJobsStartOnce ==
    ~job_cloud =>
        \A j \in OcrJobs :
          ~sj_early[j] =>
            /\ ocr_status[j] = "failed" => load_failed
            /\ ocr_started[j] <= 1
            /\ (LoadersFinished /\ ~load_failed /\ sj_pc[j] = "done")
                   => (ocr_started[j] = 1 /\ j \notin Range(job_queue))

(***************************************************************************)
(* Part 7. The batch endpoint: process_ocr_batch over processing.json      *)
(***************************************************************************)

\* Number of process_ocr_batch invocations on the session.
MaxInvocations == 2

\* Number of pages create_cloud_processing_job listed in processing.json.
MaxBatchPages == 2

Invocations == 1..MaxInvocations

BatchPageNums == 1..MaxBatchPages

\* request.batch_size
BatchSizes == 1..MaxBatchPages

\* create_cloud_processing_job (main.py:612-689): every page is listed as
\* pending, status.json says queued, and the first Cloud Task is created.
InitBatch ==
    /\ pj_pages = [p \in BatchPageNums |-> "pending"]
    /\ pj_results = {}
    /\ pj_status = "queued"
    /\ pj_tasks = 1
    /\ pb_pc = [i \in Invocations |-> "idle"]
    /\ pb_data = [i \in Invocations |-> << >>]
    /\ pb_pending = [i \in Invocations |-> {}]
    /\ pb_todo = [i \in Invocations |-> {}]
    /\ pb_response = [i \in Invocations |-> "none"]
    /\ page_ocr_by = [p \in BatchPageNums |-> {}]

\* get_pending_pages (main.py:299-305): the first batch_size pages, in the
\* order of the pages dict (page order), whose status is pending.
get_pending_pages(pages, batch_size) ==
    {p \in DOMAIN pages :
        /\ pages[p] = "pending"
        /\ Cardinality({q \in DOMAIN pages : q < p /\ pages[q] = "pending"}) < batch_size}

\* all_pages_processed (main.py:308-313)
all_pages_processed(pages) ==
    \A p \in DOMAIN pages : pages[p] \notin {"pending", "processing"}

\* The lock loop of process_ocr_batch (main.py:413-415) on the local copy.
MarkProcessing(pages, pending_pages) ==
    [p \in DOMAIN pages |-> IF p \in pending_pages THEN "processing" ELSE pages[p]]

\* process_ocr_batch up to its first save (main.py:377-417): the invocation
\* reads processing.json, picks its batch and marks it in its own copy.  With
\* nothing pending it returns at once.
process_ocr_batch_load(i, batch_size) ==
    /\ pb_pc[i] = "idle"
    /\ pj_tasks >= 1
    /\ LET pending_pages == get_pending_pages(pj_pages, batch_size)
       IN  IF pending_pages = {}
           THEN /\ pb_pc' = [pb_pc EXCEPT ![i] = "done"]
                /\ pb_response' = [pb_response EXCEPT ![i] = "no_pending_pages"]
                /\ pb_data' = [pb_data EXCEPT ![i] = pj_pages]
                /\ UNCHANGED <<pb_pending, pb_todo>>
           ELSE /\ pb_pc' = [pb_pc EXCEPT ![i] = "locking"]
                /\ pb_data' = [pb_data EXCEPT ![i] = MarkProcessing(pj_pages, pending_pages)]
                /\ pb_pending' = [pb_pending EXCEPT ![i] = pending_pages]
                /\ pb_todo' = [pb_todo EXCEPT ![i] = pending_pages]
                /\ UNCHANGED pb_response
    /\ UNCHANGED <<pj_pages, pj_results, pj_status, pj_tasks, page_ocr_by>>
    /\ OtherThanBatch

\* The first save_file (main.py:420-424): the whole local copy replaces
\* processing.json.
process_ocr_batch_lock_save(i) ==
    /\ pb_pc[i] = "locking"
    /\ pj_pages' = pb_data[i]
    /\ pb_pc' = [pb_pc EXCEPT ![i] = "processing"]
    /\ UNCHANGED <<pj_results, pj_status, pj_tasks, pb_data, pb_pending, pb_todo,
                   pb_response, page_ocr_by>>
    /\ OtherThanBatch

\* One turn of the page loop (main.py:427-460) on the next page of the sorted
\* pending_pages: the page is OCR-processed and its result saved, or a step
\* raises and the page is marked failed.
process_ocr_batch_page(i, ok) ==
    /\ pb_pc[i] = "processing"
    /\ pb_todo[i] # {}
    /\ LET page_num == CHOOSE p \in pb_todo[i] : \A q \in pb_todo[i] : p <= q
       IN  /\ pb_todo' = [pb_todo EXCEPT ![i] = @ \ {page_num}]
           /\ IF ok
              THEN /\ page_ocr_by' = [page_ocr_by EXCEPT ![page_num] = @ \cup {i}]
                   /\ pj_results' = pj_results \cup {page_num}
                   /\ pb_data' = [pb_data EXCEPT ![i][page_num] = "completed"]
              ELSE /\ pb_data' = [pb_data EXCEPT ![i][page_num] = "failed"]
                   /\ UNCHANGED <<page_ocr_by, pj_results>>
    /\ UNCHANGED <<pj_pages, pj_status, pj_tasks, pb_pc, pb_pending, pb_response>>
    /\ OtherThanBatch

\* The final save_file (main.py:462-468).
process_ocr_batch_final_save(i) ==
    /\ pb_pc[i] = "processing"
    /\ pb_todo[i] = {}
    /\ pj_pages' = pb_data[i]
    /\ pb_pc' = [pb_pc EXCEPT ![i] = "saved"]
    /\ UNCHANGED <<pj_results, pj_status, pj_tasks, pb_data, pb_pending, pb_todo,
                   pb_response, page_ocr_by>>
    /\ OtherThanBatch

\* The end of process_ocr_batch (main.py:470-498), decided on the local copy:
\* the job is completed (combine_results, update_status), or
\* create_ocr_processing_task creates the task of the next batch.
process_ocr_batch_return(i) ==
    /\ pb_pc[i] = "saved"
    /\ pb_pc' = [pb_pc EXCEPT ![i] = "done"]
    /\ IF all_pages_processed(pb_data[i])
       THEN /\ pj_status' = "completed"
            /\ pb_response' = [pb_response EXCEPT ![i] = "job_completed"]
            /\ UNCHANGED pj_tasks
       ELSE /\ pj_tasks' = pj_tasks + 1
            /\ pb_response' = [pb_response EXCEPT ![i] = "batch_processed"]
            /\ UNCHANGED pj_status
    /\ UNCHANGED <<pj_pages, pj_results, pb_data, pb_pending, pb_todo, page_ocr_by>>
    /\ OtherThanBatch

NextBatch ==
    \/ \E i \in Invocations, batch_size \in BatchSizes : process_ocr_batch_load(i, batch_size)
    \/ \E i \in Invocations : process_ocr_batch_lock_save(i)
    \/ \E i \in Invocations, ok \in BOOLEAN : process_ocr_batch_page(i, ok)
    \/ \E i \in Invocations : process_ocr_batch_final_save(i)
    \/ \E i \in Invocations : process_ocr_batch_return(i)

----------------------------------------------------------------------------
\* Specifications

Init ==
    /\ InitMeta /\ InitUpload /\ InitJobs /\ InitAssemble /\ InitStorage /\ InitOcr
    /\ InitBatch

\* Overlapping create_job calls on one session (the other parts idle).
InitMetaSpec == Init /\ doc_pages = 1

SpecMeta == InitMetaSpec /\ [][NextMeta]_vars

\* Overlapping Chunk calls on one upload (the other parts idle).
InitUploadSpec ==
    Init /\ job_cloud = TRUE /\ doc_pages = 1 /\ call_kind = [c \in Calls |-> "api"]

SpecUpload == InitUploadSpec /\ [][NextUpload]_vars

\* One session's job chains and status document (the other parts idle).
InitJobsSpec == Init /\ call_kind = [c \in Calls |-> "api"]

SpecJobs == InitJobsSpec /\ [][NextJobs]_vars

\* One UploadManager session on the object-store back-end: chunk uploads and
\* assemble_file calls (the other parts idle).
InitAssembleSpec == InitUploadSpec

SpecAssemble == InitAssembleSpec /\ [][NextAssemble]_vars

\* The file calls of two users' StorageService on both back-ends (the other
\* parts idle).
InitStorageSpec == InitUploadSpec

SpecStorage == InitStorageSpec /\ [][NextStorage]_vars

\* The session calls of two users' StorageService on both back-ends (the other
\* parts idle).
SpecSessions == InitStorageSpec /\ [][NextSessions]_vars

\* start_page values of the EXTRACT_PAGES request: any page of the document,
\* or the page after the last.
ChainStarts == 1..(doc_pages + 1)

\* The job chains of a session for every start_page.
NextChains ==
    \/ \E start \in ChainStarts : api_create_extract(start)
    \/ \E total \in OcrTotals : api_create_ocr(total)
    \/ \E j \in JobIds : extract_start(j)
    \/ \E j \in JobIds : extract_read_fails(j)
    \/ \E j \in JobIds : extract_save_page(j)
    \/ \E j \in JobIds : extract_save_fails(j)
    \/ \E j \in JobIds : extract_finish(j)
    \/ \E j \in JobIds : job_exit(j)
    \/ \E j \in JobIds : ocr_start(j)
    \/ \E j \in JobIds : ocr_run_batch(j)

SpecChains == InitJobsSpec /\ [][NextChains]_vars

\* A session of a one-page or two-page document in local mode, with the
\* completion records of its jobs.
NextLocalPool == NextJobs \/ \E j \in JobIds : local_wrapper_returns(j)

InitLocalPoolSpec == InitJobsSpec /\ ~job_cloud /\ doc_pages \in {1, 2}

SpecLocalPool == InitLocalPoolSpec /\ [][NextLocalPool]_vars

\* A session of a one-page or two-page document in the cloud whose job
\* payloads may be delivered twice.
NextRedeliver == NextJobs \/ \E j \in JobIds : redeliver(j)

InitRedeliverSpec ==
    InitJobsSpec /\ job_cloud /\ doc_pages \in {1, 2}

SpecRedeliver == InitRedeliverSpec /\ [][NextRedeliver]_vars

\* A one-page session, its jobs, rebuild-status calls and the passing of time.
NextRebuild == NextJobs \/ clock_tick

InitRebuildSpec == InitJobsSpec /\ doc_pages = 1

SpecRebuild == InitRebuildSpec /\ [][NextRebuild]_vars

\* The OCR service alone, in either mode.
InitOcrSpec == Init /\ doc_pages = 1 /\ call_kind = [c \in Calls |-> "api"]

SpecOcr == InitOcrSpec /\ [][NextOcr]_vars

\* Overlapping process_ocr_batch invocations on one session's processing.json.
InitBatchSpec ==
    Init /\ job_cloud /\ doc_pages = 1 /\ call_kind = [c \in Calls |-> "api"]

SpecBatch == InitBatchSpec /\ [][NextBatch]_vars

Spec == SpecJobs

(***************************************************************************)
(* Properties                                                              *)
(***************************************************************************)

\* The create_job calls that have been issued have all returned.
AllCallsReturned == \A c \in Calls : call_pc[c] \in {"idle", "returned"}

\* C1: once all overlapping create_job calls of a session have returned,
\* every job_id one of them returned is in metadata.json.jobs (no append is
\* lost).
C1_NoLostAppend ==
    AllCallsReturned =>
        \A c \in Calls : call_result[c] # NoCall => call_result[c] \in Range(meta_jobs)

\* C5: metadata.json.jobs is append-only: the array before any step is a
\* prefix of the array after it, so no job_id disappears and the order of
\* the committed appends is kept.
C5_JobsAppendOnly == [][IsPrefix(meta_jobs, meta_jobs')]_vars

\* The tracker the Chunk calls of the upload read and write.
ChunkTracker == up_tracker[ChunkUserHash]

\* No Chunk call is under way.
UploadQuiescent == \A r \in Reqs : up_pc[r] \in {"idle", "done"}

\* C2: under any interleaving of Chunk calls on one upload_id the assembly
\* occurs once: the source document is written at most once and at most one
\* processing job is started for it.
C2_AssembledOnce == up_docs <= 1 /\ up_jobs <= 1

\* C3: overlapping Chunk calls on one upload_id leave the tracker of some
\* serial execution: every chunk number a call acknowledged as newly received
\* is recorded in the tracker and chunks_received counts the recorded numbers.
C3_SerialTracker ==
    ChunkTracker.present =>
        /\ \A r \in Reqs : up_result[r] = "received" => up_num[r] \in ChunkTracker.chunks
        /\ ChunkTracker.chunks_received = Cardinality(ChunkTracker.chunks)

\* C4: with no Chunk call under way, failed and timed-out calls included, the
\* tracker has chunks_received = |chunks| = the number of chunk blobs stored.
C4_TrackerMatchesBlobs ==
    (UploadQuiescent /\ ChunkTracker.present) =>
        /\ ChunkTracker.chunks_received = Cardinality(ChunkTracker.chunks)
        /\ ChunkTracker.chunks_received = Cardinality(up_blobs)

\* The EXTRACT_PAGES jobs of the session, in creation order.
ExtractChain == SelectSeq(job_log, LAMBDA job : job.job_type = "extract_pages")

\* The OCR jobs of the session, in creation order.
OcrChain == SelectSeq(job_log, LAMBDA job : job.job_type = "ocr")

\* Every job of the chain has run and returned.
ChainDone(chain) ==
    Len(chain) > 0 /\ \A k \in 1..Len(chain) : chain[k].pc = "done"

\* C6: for a document of N pages the EXTRACT_PAGES job with start_page 1
\* leads to ceil(N/10) EXTRACT_PAGES jobs; the k-th starts at 10(k-1)+1,
\* writes exactly pages 10(k-1)+1 .. min(10k, N) and creates a continuation
\* with start_page = end_page + 1 if and only if its end_page < N.
C6_ExtractChain ==
    LET chain == ExtractChain IN
    (Len(chain) > 0 /\ chain[1].start_page = 1) =>
    /\ Len(chain) <= CeilDiv(doc_pages, 10)
    /\ \A k \in 1..Len(chain) :
         LET job == chain[k] IN
         /\ job.start_page = 10 * (k - 1) + 1
         /\ job.pc \in {"returned", "exiting", "done"} =>
                job.written = (10 * (k - 1) + 1)..Min(10 * k, doc_pages)
         /\ job.pc \in {"exiting", "done"} =>
                /\ job.continued <=> 10 * k < doc_pages
                /\ job.continued =>
                       k < Len(chain) /\ chain[k + 1].start_page = Min(10 * k, doc_pages) + 1
                /\ ~job.continued => k = Len(chain)
    /\ ChainDone(chain) => Len(chain) = CeilDiv(doc_pages, 10)

\* An 11-page document: two jobs have run, the second wrote page 11 only.
C6_ElevenPagesTwoJobs ==
    /\ doc_pages = 11
    /\ Len(ExtractChain) = 2
    /\ ExtractChain[1].start_page = 1
    /\ ChainDone(ExtractChain)
    /\ ExtractChain[1].written = 1..10
    /\ ExtractChain[2].written = {11}

\* C7: an OCR job {total_pages: N, start_page: 1} with all page images
\* present leads to ceil(N/5) OCR jobs; the k-th covers pages
\* 5(k-1)+1 .. min(5k, N): once it has ended its result files are written and,
\* when its end_page < N, the continuation job exists.
C7_OcrChain ==
    LET chain == OcrChain IN
    \A k \in 1..Len(chain) :
        LET job == chain[k]
            first == 5 * (k - 1) + 1
            last == Min(5 * k, job.total_pages)
        IN (job.pc \in {"done", "failed"} /\ job.valid = first..last) =>
               /\ job.written = first..last
               /\ last < job.total_pages => job.continued

\* The stage entry of a finished stage of an N-page document.
CompleteStage(n) ==
    [present |-> TRUE, status |-> "complete", total_pages |-> n,
     pages_processed |-> n, progress_percent |-> 100]

\* The EXTRACT_PAGES chain has finished without error: every job ran and the
\* pages 1..N are stored.
ExtractFinished == ChainDone(ExtractChain) /\ store_pages = 1..doc_pages

\* C8: after the EXTRACT_PAGES chain of an N-page document has finished
\* without error the stored status document shows page_extraction as
\* {complete, N, N, 100}.
C8_FinishedStageComplete ==
    ExtractFinished => status_doc.page_extraction = CompleteStage(doc_pages)

\* C9: the status rebuilt for a session reports page_extraction.pages_processed
\* equal to the number of pages/page_NNN.png objects and ocr.pages_processed
\* equal to the number of results/page_NNN.txt objects stored at that time.
C9_RebuildCountsFiles ==
    [][rebuild_session_status =>
          /\ status_doc'.page_extraction.pages_processed = Cardinality(store_pages)
          /\ status_doc'.ocr.pages_processed = Cardinality(store_results)]_vars

\* C10: a stored status document is equal to what the derivation returns, with
\* the pinned total if there is one, for the files in storage at that time.
C10_StatusIsRebuild ==
    status_doc.present => status_doc = scan_and_build_status(job_cloud, pinned_total)

\* Both counts of a status document are within their limits.
CountsBounded(s) ==
    /\ s.page_extraction.present =>
           s.page_extraction.pages_processed <= s.page_extraction.total_pages
    /\ s.ocr.pages_processed <= s.page_extraction.pages_processed

CompleteIffCounts(st) ==
    st.present =>
        (st.status = "complete" <=>
             (st.pages_processed = st.total_pages /\ st.total_pages > 0))

\* C12: in every status document produced a stage has status complete if and
\* only if its pages_processed equals its total_pages and total_pages > 0.
C12_CompleteIffCounts ==
    status_doc.present =>
        CompleteIffCounts(status_doc.page_extraction) /\ CompleteIffCounts(status_doc.ocr)

\* A stored stage entry whose counts differ, with page images in storage.
C12_StageProcessing ==
    /\ status_doc.page_extraction.present
    /\ status_doc.page_extraction.status = "processing"
    /\ status_doc.page_extraction.pages_processed # status_doc.page_extraction.total_pages
    /\ store_pages # {}

C14_FailedJobNoContinuation ==
    \A j \in JobIds :
        job_log[j].pc = "failed" =>
            /\ ~job_log[j].continued
            /\ \A i \in JobIds : job_log[i].parent # j
            /\ job_log[j].job_type = "ocr" => job_log[j].written = {}

\* An EXTRACT_PAGES job failed after saving a page with pages left, and an
\* OCR job failed on a batch of loaded images with pages left.
C14_FailedWithPagesLeft ==
    /\ \E j \in JobIds :
         /\ job_log[j].job_type = "extract_pages"
         /\ job_log[j].pc = "failed"
         /\ job_log[j].saved > 0
         /\ job_log[j].end_page < doc_pages
    /\ \E j \in JobIds :
         /\ job_log[j].job_type = "ocr"
         /\ job_log[j].pc = "failed"
         /\ job_log[j].valid # {}
         /\ job_log[j].end_page < job_log[j].total_pages

C17_DuplicateIsNoOp ==
    [][/\ ChunkTracker'.present =>
              ChunkTracker'.chunks_received = Cardinality(ChunkTracker'.chunks)
       /\ \A r \in Reqs :
            /\ (/\ up_pc[r] = "idle"
                /\ up_pc'[r] # "idle"
                /\ ChunkTracker.present
                /\ up_num'[r] \in ChunkTracker.chunks) =>
                   up_result'[r] = "duplicate"
            /\ (up_result[r] # "duplicate" /\ up_result'[r] = "duplicate") =>
                   /\ up_num'[r] \in ChunkTracker.chunks
                   /\ up_blobs' = up_blobs
                   /\ up_tracker' = up_tracker]_vars

\* Chunk 0 of a two-chunk upload was sent twice: the second call was
\* acknowledged as a duplicate, one blob is stored and it is counted once.
C17_DuplicateAcknowledged ==
    /\ ChunkTracker.present
    /\ ChunkTracker.total_chunks = 2
    /\ ChunkTracker.chunks = {0}
    /\ ChunkTracker.chunks_received = 1
    /\ up_blobs = {0}
    /\ \E r \in Reqs : up_result[r] = "duplicate" /\ up_num[r] = 0
    /\ \E r \in Reqs : up_result[r] = "received" /\ up_num[r] = 0

\* C18: a Chunk call whose chunk_number lies outside [0, total_chunks) is
\* rejected and changes neither the tracker nor the stored chunk blobs: no
\* such number is ever recorded or stored.
C18_OutOfRangeRejected ==
    /\ up_blobs \subseteq 0..(up_declared - 1)
    /\ ChunkTracker.present =>
           ChunkTracker.chunks \subseteq 0..(ChunkTracker.total_chunks - 1)
    /\ \A r \in Reqs :
           (up_pc[r] = "done" /\ up_num[r] >= up_declared) =>
               up_result[r] \in {"rejected", "notfound"}

\* The chunk numbers in [0, total) with no stored chunk file.
MissingChunkFiles(total) ==
    {n \in 0..(total - 1) : ChunkFileName(n) \notin DOMAIN as_files}

C20_AscendingOrder ==
    as_output # <<>> =>
        /\ Len(as_output) = as_data.total_chunks
        /\ \A i \in 1..Len(as_output) : as_arrival[as_output[i]] = i - 1

\* Chunk 1 arrived before chunk 0 and the file has been assembled.
C20_AssembledOutOfArrivalOrder ==
    /\ as_output # <<>>
    /\ as_data.total_chunks = 2
    /\ as_arrival[1] = 1
    /\ as_result.status = "complete"

\* The size of the assembled object.
RECURSIVE OutputSize(_)
OutputSize(output) ==
    IF output = <<>> THEN 0
    ELSE OutputSize(SubSeq(output, 1, Len(output) - 1))
             + as_sizes[output[Len(output)]]

\* C21: when an assemble_file call returns complete, no chunk file and no
\* chunker.json is left, the assembled object exists and its size is the
\* declared total_size; an assemble_file call made after that fails with
\* "session not found".
C21_CompleteLeavesOnlyTheFile ==
    [][/\ (as_pc = "saved" /\ as_result'.status = "complete") =>
              /\ DOMAIN as_files' = {}
              /\ ~as_chunker'.present
              /\ as_output' # <<>>
              /\ OutputSize(as_output') = as_data.total_size
       /\ (/\ as_result.status = "complete"
           /\ as_pc = "idle"
           /\ as_calls' = as_calls + 1) =>
              as_result'.status = "notfound"]_vars

\* C22: after a crash during the assembly (while the file is streamed, after
\* it is written, or inside the cleanup) the chunker.json and every chunk
\* file are still stored, and the next assemble_file call that returns,
\* returns complete.
C22_CrashRecoverable ==
    [][/\ as_result'.status = "crashed" =>
              /\ as_chunker'.present
              /\ \A i \in 0..(as_data.total_chunks - 1) :
                     ChunkFileName(i) \in DOMAIN as_files'
       /\ (as_result.status = "crashed" /\ as_result'.status # "crashed") =>
              as_result'.status = "complete"]_vars

\* C30: a rebuild made between EXTRACT_PAGES batches (some but not all page
\* images stored, no total passed) stores a status document whose
\* page_extraction stage has pages_processed equal to the number of stored
\* page images and status "processing".
C30_RebuildBetweenBatches ==
    [][(/\ rebuild_session_status
        /\ Cardinality(store_pages) > 0
        /\ Cardinality(store_pages) < doc_pages) =>
          /\ status_doc'.page_extraction.present
          /\ status_doc'.page_extraction.pages_processed = Cardinality(store_pages)
          /\ status_doc'.page_extraction.status = "processing"]_vars

\* The user on whose behalf a step of the storage part is made.
StepUser ==
    IF st_write'.active /\ st_write' # st_write THEN st_write'.by
    ELSE IF st_write.active /\ ~st_write'.active THEN st_write.by
    ELSE st_op'.by

\* The objects of a back-end that `user` did not write are as they were.
OthersUntouched(objects, objects_after, user) ==
    \A key \in DOMAIN objects :
        objects[key].owner # user =>
            key \in DOMAIN objects_after /\ objects_after[key] = objects[key]

\* C23: no call made on behalf of one user returns or changes an object
\* written by the other user, on either back-end: what a get returns was
\* written by its caller, and a save or delete leaves the other user's
\* objects as they were.
C23_UserIsolation ==
    [][/\ OthersUntouched(gcs_objects, gcs_objects', StepUser)
       /\ OthersUntouched(fs_files, fs_files', StepUser)
       /\ st_op'.kind \in {"get", "serve"} =>
              /\ st_op'.gcs.status = "found" => st_op'.gcs.content.owner = st_op'.by
              /\ st_op'.fs.status = "found" => st_op'.fs.content.owner = st_op'.by]_vars

\* C24: a get never returns a partial write, on either back-end: what it
\* returns is the whole content of some save, also when the get overlaps a
\* save or follows an interrupted one.
C24_NoPartialRead ==
    st_op.kind \in {"get", "serve"} =>
        /\ st_op.gcs.status = "found" => st_op.gcs.content.whole
        /\ st_op.fs.status = "found" => st_op.fs.content.whole

\* C25: a get made while no save is in progress returns the content of the
\* most recent successful save of that key if no delete followed it, and
\* NotFound otherwise, on either back-end.
C25_GetReturnsLastSave ==
    [][\A u \in StorageUsers, filename \in FileNames :
         \A session \in SessionArgs(u) :
           (st_get_file(u, session, filename) /\ ~st_write.active) =>
               LET key == get_session_file_path(UserHash(u), session, filename)
               IN /\ st_op'.gcs = ReadKey(st_last_gcs, key)
                  /\ st_op'.fs = ReadKey(st_last_fs, ResolvePath(key))]_vars

\* C26: after the same completed saves and deletes, a list returns the same
\* set of names on the filesystem back-end as on the object-store back-end:
\* the names, relative to the prefix, of every object saved under it.
C26_ListSameOnBothBackends ==
    [][\A u \in StorageUsers, prefix \in {<<>>, <<"pages">>}, sid \in SessionIds :
         (/\ st_list_files(u, prefix, <<sid>>)
          /\ ~st_write.active
          /\ gcs_objects = st_last_gcs
          /\ fs_files = st_last_fs) =>
             /\ st_op'.fs_names = st_op'.gcs_names
             /\ st_op'.gcs_names =
                    {SubSeq(key, Len(prefix) + 4, Len(key)) :
                        key \in Under(st_last_gcs,
                                      <<"users", UserHash(u), sid>> \o prefix)}]_vars

\* The session id a session_hash argument ends in.
SessionIdOf(session) == session[Len(session)]

\* C27: validate_session answers true only to the user whose create_session
\* made the session, and delete_session called by another user answers false
\* and deletes nothing, on either back-end.
C27_SessionOwnerOnly ==
    [][\A u \in StorageUsers :
         \A session \in SessionArgs(u) :
           /\ (/\ st_validate_session(u, session)
               /\ (st_op'.gcs.status = "true" \/ st_op'.fs.status = "true")) =>
                  st_created[SessionIdOf(session)] = u
           /\ (/\ st_delete_session(u, session)
               /\ st_created[SessionIdOf(session)] \in StorageUsers \ {u}) =>
                  /\ st_op'.gcs.status = "false"
                  /\ st_op'.fs.status = "false"
                  /\ gcs_objects' = gcs_objects
                  /\ fs_files' = fs_files]_vars

\* u1 created session s1 and saved a file in it; u2 named that session by a
\* relative path and called delete_session: the answer was false on both
\* back-ends and both files are in place.
C27_OtherUserRefused ==
    /\ st_created["s1"] = "u1"
    /\ st_op.kind = "delete_session"
    /\ st_op.by = "u2"
    /\ st_op.session = <<"..", "h1", "s1">>
    /\ st_op.gcs.status = "false" /\ st_op.fs.status = "false"
    /\ {<<"users", "h1", "s1", "metadata.json">>, <<"users", "h1", "s1", "a.txt">>}
           \subseteq (DOMAIN fs_files \cap DOMAIN gcs_objects)

\* A rebuild-status call that follows another one on an idle session.
RebuildAgain == rebuild_session_status /\ rb_row >= 1 /\ SessionIdle

\* C31 as stated: rebuild-status calls in a row on an idle session store the
\* same status document each time.
C31_RebuildSameDocument == [][RebuildAgain => status_doc' = status_doc]_vars

\* C31: rebuild-status calls in a row on an idle session store a status
\* document with the same stages each time; only updated_at, the time of the
\* call, differs.
C31_RebuildSameStages ==
    [][RebuildAgain =>
          /\ status_doc'.present = status_doc.present
          /\ status_doc'.page_extraction = status_doc.page_extraction
          /\ status_doc'.ocr = status_doc.ocr]_vars

\* Two rebuild-status calls in a row, at different times, on an idle session
\* that has run its jobs and holds a page image.
C31_RebuiltTwice ==
    /\ rb_row = 2
    /\ SessionIdle
    /\ job_log # << >>
    /\ store_pages # {}
    /\ status_doc.updated_at > 1

\* The step is one of a run that received its payload a second time.
RedeliveredRunSteps ==
    \E j \in Redelivered : j \in DOMAIN job_log' /\ job_log'[j] # job_log[j]

C33_InvalidTypeRejected4xx ==
    \A c \in Calls :
        call_pc[c] = "rejected" =>
            /\ call_status[c] \in 400..499
            /\ JobIdOf(c) \notin Range(meta_jobs)

\* C34: in local mode the completion record handed to the completion handler
\* for a job whose run raised an exception has status failed, never
\* completed.
C34_FailedJobRecordedFailed ==
    ~job_cloud =>
        \A j \in JobIds :
            (job_log[j].pc = "failed" /\ job_log[j].record # "none") =>
                job_log[j].record = "failed"

\* The loader threads that are reading the model inside load_model.
LoadsRunning == {l \in Loaders : ld_pc[l] = "load_running"}

\* C35: under any interleaving of process_image and submit_job calls at most
\* one model load runs at a time, and no load completes when the model has
\* been loaded already.
C35_LoadMutuallyExclusive ==
    [][/\ Cardinality(LoadsRunning') <= 1
       /\ \A l \in Loaders : background_load_loaded(l) => ~model_loaded]_vars

\* C36: within a session no OCR job starts running before every page of the
\* document has been extracted.
C36_OcrAfterExtraction ==
    [][\A j \in JobIds : ocr_start(j) => store_pages = 1..doc_pages]_vars

\* total_pages of the stage a job belongs to: the document's page count for
\* EXTRACT_PAGES, the payload's total_pages for OCR.
ChainTotal(job) ==
    IF job.job_type = "extract_pages" THEN doc_pages ELSE job.total_pages

\* Pages one job of the stage covers.
ChainBatch(job) ==
    IF job.job_type = "extract_pages" THEN EXTRACT_PAGES_BATCH ELSE OCR_BATCH_SIZE

\* The jobs of job j's chain: j itself and the jobs it descends from.
RECURSIVE ChainUpTo(_)
ChainUpTo(j) ==
    IF job_log[j].parent = 0 THEN {j} ELSE {j} \cup ChainUpTo(job_log[j].parent)

\* C37: for every total_pages >= 1 and every start_page >= 1 a job chain is
\* finite: a continuation has a larger start_page than the job that created
\* it and none past total_pages, a chain has at most ceil(total_pages / batch
\* size) jobs, and the job of a one-page document creates no continuation.
C37_ChainsFinite ==
    \A j \in JobIds :
        LET job == job_log[j] IN
        /\ job.parent # 0 =>
               /\ job.start_page > job_log[job.parent].start_page
               /\ job.start_page <= ChainTotal(job)
        /\ Cardinality(ChainUpTo(j)) <= CeilDiv(ChainTotal(job), ChainBatch(job))
        /\ ChainTotal(job) = 1 => job.parent = 0 /\ ~job.continued

\* A chain started in the middle of the document has run to its end in more
\* than one job.
C37_ChainFromTheMiddle ==
    \E j \in JobIds :
        /\ job_log[j].job_type = "extract_pages"
        /\ job_log[j].parent # 0
        /\ job_log[job_log[j].parent].parent = 0
        /\ job_log[job_log[j].parent].start_page > 1
        /\ job_log[j].pc = "done"
        /\ job_log[j].end_page = doc_pages

\* Every chunk number of the upload has been acknowledged to some Chunk call.
AllChunksAcknowledged ==
    /\ up_declared > 0
    /\ \A n \in 0..(up_declared - 1) :
           \E r \in Reqs : up_num[r] = n /\ up_result[r] \in {"received", "complete"}

\* C38: once every chunk number 0..total_chunks-1 has been acknowledged as
\* received and no Chunk call is under way, some Chunk call has returned
\* upload_complete and the processing job has been started.
C38_AcknowledgedUploadAssembled ==
    (AllChunksAcknowledged /\ UploadQuiescent) =>
        /\ \E r \in Reqs : up_result[r] = "complete"
        /\ up_jobs >= 1

\* The tracker Start wrote is still stored, under whatever user prefix.
StartTrackerStored == \E h \in UserHashes : up_tracker[h].present

\* C39: a Chunk call for an upload_id whose tracker Start wrote and nobody has
\* removed finds that tracker, whatever user identifier accompanied Start:
\* it is not answered "upload session not found".
C39_ChunkFindsStartTracker ==
    [][\A r \in Reqs, n \in ChunkNumbers :
          (add_chunk_load(r, n) /\ StartTrackerStored) => up_result'[r] # "notfound"]_vars

\* The rank of a page status in the life of a page: pending, then processing,
\* then completed or failed.
StatusRank(status) ==
    CASE status = "pending" -> 0
      [] status = "processing" -> 1
      [] OTHER -> 2

\* C40: marking pages as processing acts as a lock under overlapping
\* process_ocr_batch invocations of one session: every page is OCR-processed
\* by at most one invocation, and no save of processing.json takes back a
\* page status another invocation has written (a page never goes back from
\* completed or failed to processing or pending, nor from processing to
\* pending).
C40_ProcessingMarkLocksPages ==
    [][/\ \A p \in BatchPageNums : Cardinality(page_ocr_by'[p]) <= 1
       /\ \A p \in BatchPageNums : StatusRank(pj_pages'[p]) >= StatusRank(pj_pages[p])]_vars

====
